---------------------------- MODULE Spec2Model ----------------------------
(***************************************************************************)
(* Verification model of the ym2149-wa repository: the YM2149 AudioWorklet *)
(* processor (src/src/ym2149-processor.js), the YM effect decoder          *)
(* (src/src/effects.ts), the YM2149 chip proxy that owns the worklet node  *)
(* (src/packages/core/src/ym2149.ts) and the replayer drivers              *)
(* (src/packages/core/src/replayer.ts, the BaseReplayer-derived YmReplayer *)
(* and the Pt3Replayer).                                                   *)
(*                                                                         *)
(* Conventions.  Channels, registers and array indices are 0-based as in   *)
(* the source and are modelled as functions over 0..n-1.  JavaScript       *)
(* bit operations are written arithmetically (x & 0x0f is x % 16, x >> 4   *)
(* is x \div 16) and 32-bit conversions are explicit (ShiftLeft15, U32Add). *)
(* The processor's floating tick accumulator is kept as an exact fraction  *)
(* with denominator sampleRate.                                            *)
(***************************************************************************)
EXTENDS Integers, Sequences, FiniteSets, TLC

VARIABLES
  sampleRate,        \* AudioWorkletGlobalScope.sampleRate
  workletNode,       \* YM2149.workletNode: the processor behind it, or NoNode
  workletReady,      \* YM2149.workletReady
  pendingMessages,   \* YM2149.pendingMessages
  moduleLoaded,      \* YM2149.loadedContexts.has(audioContext)
  awaiting,          \* start() calls suspended at an await: <<resume, addModule>> counts
  kind,              \* which replayer class drives the chip
  file,              \* the loaded file (ymFile / file / pt3File), or NoFile
  currentFrame,      \* replayer.currentFrame
  state,             \* replayer.state
  intervalId,        \* replayer.intervalId !== null
  timers,            \* number of live window.setInterval registrations
  activeSid,         \* YmReplayer.activeSid
  activeSyncBuzzer,  \* YmReplayer.activeSyncBuzzer
  player,            \* Pt3Replayer.player (the Pt3Player's position state)
  disposed,          \* dispose() has been called
  op,                \* history: the operation that made the last step
  sent,              \* history: the messages posted by the last step, in order
  delivered,         \* history: messages handed to a worklet node's port by the last step
  firstSnap,         \* history: worklet snapshot after the first frame of the initial play()
  lastSnap,          \* history: worklet snapshot after the first frame of the latest play() from 'stopped'
  fresh,             \* history: play() from 'stopped' has run and no frame was applied since
  drumReads,         \* history: the sample index each DigiDrum read in the last output sample
  arg,               \* history: the argument of the last step: a frame, msg, file or target
  portLog,           \* history: the posted messages handed to a node's port, in order (SpecChip)
  steps,             \* history: steps taken (bounds the processor explorations)
  levels,            \* history: the VOLUME_TABLE index each channel used in the last output sample
  envGen,            \* an EnvelopeGenerator of src/packages/core/src/envelope.ts
  input,             \* the bytes handed to a parser
  parsed,            \* what the parser returned for them, or that it threw
  pt3,               \* a Pt3Replayer's players: the modules, both Pt3Player objects
                     \* and the registers of the last tick
  ticker,            \* the ticker worker of src/packages/core/src/envelope.ts
  nodes              \* history: the AudioWorkletNodes the chip object created since
                     \* the last stop() (SpecChip)

vars == <<sampleRate, workletNode, workletReady, pendingMessages, moduleLoaded,
          awaiting, kind, file, currentFrame, state, intervalId, timers,
          activeSid, activeSyncBuzzer, player, disposed, op, sent, delivered,
          firstSnap, lastSnap, fresh, drumReads, arg, portLog, steps, levels,
          envGen, input, parsed, pt3, ticker, nodes>>

chipVars == <<workletNode, workletReady, pendingMessages, moduleLoaded, awaiting>>
drvVars  == <<kind, file, currentFrame, state, intervalId, timers, activeSid,
              activeSyncBuzzer, player, disposed>>
snapVars == <<firstSnap, lastSnap, fresh>>
unitVars == <<envGen, input, parsed, pt3, ticker, nodes>>

Channels == 0 .. 2

Min(a, b) == IF a < b THEN a ELSE b
Max(a, b) == IF a > b THEN a ELSE b

\* The model checker's integers are 32-bit signed, so an unsigned 32-bit
\* JavaScript value (x >>> 0) is kept as two 16-bit halves.
U32(hi, lo) == [hi |-> hi, lo |-> lo]
U32Zero == U32(0, 0)
\* (a + n) >>> 0 for a 32-bit a and 0 <= n < 2^31
U32Add(a, n) ==
  LET l == a.lo + (n % 65536)
      h == a.hi + (n \div 65536) + (l \div 65536)
  IN U32(h % 65536, l % 65536)
\* a & 0x80000000
U32Msb(a) == a.hi >= 32768

\* floor(c * 2^k / d) from q = floor(c / d), r = c % d, without leaving 32 bits
RECURSIVE ShiftDiv(_, _, _, _)
ShiftDiv(q, r, d, k) ==
  IF k = 0 THEN q ELSE ShiftDiv(2 * q + ((2 * r) \div d), (2 * r) % d, d, k - 1)

\* ToInt32(x * 2^15): the low 32 bits of the shifted value, read as signed
ShiftLeft15(x) ==
  LET r == x % 131072 IN IF r >= 65536 THEN (r - 131072) * 32768 ELSE r * 32768

\* ToInt32(x) >> 15 for an integer-valued double x
ShiftRight15(x) ==
  LET h == (x \div 32768) % 131072 IN IF h >= 65536 THEN h - 131072 ELSE h

---------------------------------------------------------------------------
(* The AudioWorklet processor: src/src/ym2149-processor.js                 *)

DRUM_PREC == 15

NewToneGenerator == [counter |-> 0, period |-> 1, output |-> 0]

NewNoiseGenerator ==
  [lfsr |-> 1, counter |-> 0, period |-> 16, output |-> 0, halfTick |-> FALSE]

NewEnvelopeGenerator ==
  [counter |-> 0, period |-> 1, position |-> -64, shape |-> 0, dataOffset |-> 0]

\* data === null is dataNull; data is then the empty sequence.
NewDigiDrumPlayer == [active |-> FALSE, dataNull |-> TRUE, data |-> <<>>, pos |-> 0, step |-> 0]

NewSidVoice == [active |-> FALSE, pos |-> U32Zero, step |-> 0, volume |-> 0, isSinus |-> FALSE]

SHAPE_TO_ENV == <<0, 0, 0, 0, 1, 1, 1, 1, 2, 3, 4, 5, 6, 7, 8, 9>>

\* EnvelopeGenerator.ENV_DATA: 10 shapes of 128 steps, each four runs of 32:
\* "D" counts 31 down to 0, "A" counts 0 up to 31, "Z" holds 0, "M" holds 31.
ENV_DATA ==
  <<<<"D", "Z", "Z", "Z">>, <<"A", "Z", "Z", "Z">>, <<"D", "D", "D", "D">>,
    <<"D", "Z", "Z", "Z">>, <<"D", "A", "D", "A">>, <<"D", "M", "M", "M">>,
    <<"A", "A", "A", "A">>, <<"A", "M", "M", "M">>, <<"A", "D", "A", "D">>,
    <<"A", "Z", "Z", "Z">>>>

\* ENV_DATA[index]
EnvDataAt(index) ==
  LET run == ENV_DATA[(index \div 128) + 1][((index % 128) \div 32) + 1]
      i == index % 32
  IN CASE run = "D" -> 31 - i
       [] run = "A" -> i
       [] run = "M" -> 31
       [] OTHER -> 0

\* YM2149Processor.constructor
NewProcessor ==
  [internalClock |-> 250000,
   tickAccumulator |-> 0,
   tones |-> [ch \in Channels |-> NewToneGenerator],
   noise |-> NewNoiseGenerator,
   envelope |-> NewEnvelopeGenerator,
   toneEnabled |-> [ch \in Channels |-> TRUE],
   noiseEnabled |-> [ch \in Channels |-> FALSE],
   volumes |-> [ch \in Channels |-> 15],
   useEnvelope |-> [ch \in Channels |-> FALSE],
   drums |-> [ch \in Channels |-> NewDigiDrumPlayer],
   drumSamples |-> <<>>,
   sidVoices |-> [ch \in Channels |-> NewSidVoice],
   syncBuzzerEnabled |-> FALSE,
   syncBuzzerPhase |-> U32Zero,
   syncBuzzerStep |-> 0,
   channelLevels |-> FALSE]

\* A noise tick that shifts without inserting the feedback bit.
NoiseTickDropsFeedback(n) ==
  LET half == ~n.halfTick
  IN IF ~half THEN [n EXCEPT !.halfTick = half]
     ELSE IF n.counter + 1 >= n.period
          THEN [n EXCEPT !.halfTick = half, !.lfsr = n.lfsr \div 2, !.counter = 0]
          ELSE [n EXCEPT !.halfTick = half, !.counter = n.counter + 1]

\* NoiseGenerator.tick counting on every tick, not on every other one
NoiseTickEveryTick(n) ==
  LET c == n.counter + 1
      feedback == ((n.lfsr % 2) + ((n.lfsr \div 4) % 2)) % 2
  IN IF c >= n.period
     THEN [n EXCEPT !.halfTick = ~n.halfTick, !.output = feedback,
                    !.lfsr = (n.lfsr \div 2) + feedback * 65536,
                    !.counter = 0]
     ELSE [n EXCEPT !.halfTick = ~n.halfTick, !.counter = c]

\* NoiseGenerator.tick
NoiseTick(n) ==
  LET half == ~n.halfTick
      c == n.counter + 1
      feedback == ((n.lfsr % 2) + ((n.lfsr \div 4) % 2)) % 2
  IN IF ~half THEN [n EXCEPT !.halfTick = half]
     ELSE IF c >= n.period
          THEN [n EXCEPT !.halfTick = half, !.output = feedback,
                         !.lfsr = (n.lfsr \div 2) + feedback * 65536,
                         !.counter = 0]
          ELSE [n EXCEPT !.halfTick = half, !.counter = c]

\* ToneGenerator.tick
ToneTick(t) ==
  IF t.counter + 1 >= t.period
  THEN [t EXCEPT !.output = 1 - t.output, !.counter = 0]
  ELSE [t EXCEPT !.counter = t.counter + 1]

\* A setShape that gives shapes 4-7 the tables 1-4 and shapes 8-15 the tables 5-8.
EnvSetShapeByRange(e, shape) ==
  [e EXCEPT !.shape = shape % 16,
            !.dataOffset = (IF shape % 16 < 4 THEN 0 ELSE IF shape % 16 < 8 THEN (shape % 16) - 3
                            ELSE 5 + ((shape % 16) - 8) \div 2) * 128,
            !.position = -64,
            !.counter = 0]

\* EnvelopeGenerator.setShape
EnvSetShape(e, shape) ==
  [e EXCEPT !.shape = shape % 16,
            !.dataOffset = SHAPE_TO_ENV[(shape % 16) + 1] * 128,
            !.position = -64,
            !.counter = 0]

\* EnvelopeGenerator.trigger
EnvTrigger(e) == [e EXCEPT !.position = -64, !.counter = 0]

\* An envelope tick that never wraps into the sustain range.
EnvTickNoWrap(e) ==
  IF e.counter + 1 >= e.period
  THEN [e EXCEPT !.position = e.position + 1, !.counter = 0]
  ELSE [e EXCEPT !.counter = e.counter + 1]

\* EnvelopeGenerator.tick
EnvTick(e) ==
  IF e.counter + 1 >= e.period
  THEN LET p == e.position + 1
       IN [e EXCEPT !.position = IF p > 63 THEN p % 64 ELSE p, !.counter = 0]
  ELSE [e EXCEPT !.counter = e.counter + 1]

\* EnvelopeGenerator.getLevel reading the first table whatever the shape
EnvGetLevelIgnoresOffset(e) ==
  LET index == e.position + 64
  IN IF index \in 0 .. 1279 THEN EnvDataAt(index) ELSE 0

\* EnvelopeGenerator.getLevel: ENV_DATA[index] || 0
EnvGetLevel(e) ==
  LET index == e.dataOffset + e.position + 64
  IN IF index \in 0 .. 1279 THEN EnvDataAt(index) ELSE 0

\* DigiDrumPlayer.start: Math.floor((freq << DRUM_PREC) / sampleRate), where
\* freq << DRUM_PREC is a 32-bit signed shift.
DrumStep(freq, sr) == ShiftLeft15(freq) \div sr

DrumStart(sampleData, freq, sr) ==
  [active |-> TRUE, dataNull |-> FALSE, data |-> sampleData, pos |-> 0,
   step |-> DrumStep(freq, sr)]

\* DigiDrumPlayer.stop
DrumStop == [active |-> FALSE, dataNull |-> TRUE, data |-> <<>>, pos |-> 0, step |-> 0]

\* pos >> DRUM_PREC
DrumIndex(d) == ShiftRight15(d.pos)

\* DigiDrumPlayer.getSample returns a sample (not null)
DrumPlays(d) == d.active /\ ~d.dataNull /\ DrumIndex(d) < Len(d.data)

\* DigiDrumPlayer.getSample followed, when it returned a sample, by advance
DrumSampleStep(d) ==
  IF ~d.active \/ d.dataNull THEN d
  ELSE IF DrumIndex(d) >= Len(d.data) THEN [d EXCEPT !.active = FALSE]
  ELSE LET q == [d EXCEPT !.pos = d.pos + d.step]
       IN IF DrumIndex(q) >= Len(q.data) THEN [q EXCEPT !.active = FALSE] ELSE q

\* SidVoice.start / the Sync Buzzer start: floor(min(freq, sr/4) * 2^31 / sr)
PhaseStep(freq, sr) ==
  LET c == Min(4 * freq, sr)
      d == 4 * sr
  IN ShiftDiv(c \div d, c % d, d, 31)

\* A start that stores the volume it is given, unmasked.
SidStartKeepsVolume(v, freq, volume, sr, isSinus) ==
  [active |-> TRUE, pos |-> IF v.active THEN v.pos ELSE U32Zero,
   step |-> PhaseStep(freq, sr), volume |-> volume, isSinus |-> isSinus]

\* SidVoice.start: the phase restarts only for a voice that was not active.
SidStart(v, freq, volume, sr, isSinus) ==
  [active |-> TRUE, pos |-> IF v.active THEN v.pos ELSE U32Zero,
   step |-> PhaseStep(freq, sr), volume |-> volume % 16, isSinus |-> isSinus]

\* SidVoice.stop
SidStop(v) == [v EXCEPT !.active = FALSE, !.pos = U32Zero, !.step = 0]

\* SidVoice.advance
SidAdvance(v) == IF v.active THEN [v EXCEPT !.pos = U32Add(v.pos, v.step)] ELSE v

\* case 'reset' of handleMessage
ResetProcessor(p) ==
  [p EXCEPT !.tones = [ch \in Channels |-> [counter |-> 0, period |-> 1, output |-> 0]],
            !.volumes = [ch \in Channels |-> 0],
            !.useEnvelope = [ch \in Channels |-> FALSE],
            !.toneEnabled = [ch \in Channels |-> TRUE],
            !.noiseEnabled = [ch \in Channels |-> FALSE],
            !.drums = [ch \in Channels |-> DrumStop],
            !.sidVoices = [ch \in Channels |-> SidStop(p.sidVoices[ch])],
            !.noise = [lfsr |-> 1, counter |-> 0, period |-> 16, output |-> 0,
                       halfTick |-> FALSE],
            !.envelope = [counter |-> 0, period |-> 1, position |-> -64, shape |-> 0,
                          dataOffset |-> 0],
            !.syncBuzzerEnabled = FALSE,
            !.syncBuzzerPhase = U32Zero,
            !.syncBuzzerStep = 0,
            !.tickAccumulator = 0]

\* Messages are records with a type and the fields that type carries.
Msg(type) == [type |-> type]
MsgV(type, value) == [type |-> type, value |-> value]
MsgCV(type, channel, value) == [type |-> type, channel |-> channel, value |-> value]
MsgC(type, channel) == [type |-> type, channel |-> channel]

\* A setPeriod that stores what it is given.
SetPeriodRaw(period) == period

\* ToneGenerator.setPeriod, NoiseGenerator.setPeriod, EnvelopeGenerator.setPeriod:
\* the period stored.
SetPeriod(period) == Max(1, period)

\* case 'startDrum' without its test of drumNum: a drum number with no
\* sample starts the drum with undefined data
startDrumUnguarded(p, msg, sr) ==
  IF msg.drumNum < Len(p.drumSamples)
  THEN [p EXCEPT !.drums[msg.channel] =
                    DrumStart(p.drumSamples[msg.drumNum + 1], msg.freq, sr)]
  ELSE [p EXCEPT !.drums[msg.channel] =
                    [DrumStart(<<>>, msg.freq, sr) EXCEPT !.dataNull = TRUE]]

\* YM2149Processor.handleMessage, case 'startDrum'
startDrum(p, msg, sr) ==
  IF msg.drumNum < Len(p.drumSamples)
  THEN [p EXCEPT !.drums[msg.channel] =
                    DrumStart(p.drumSamples[msg.drumNum + 1], msg.freq, sr)]
  ELSE p

\* YM2149Processor.handleMessage
handleMessage(p, msg, sr) ==
  CASE msg.type = "reset" -> ResetProcessor(p)
    [] msg.type = "setInternalClock" -> [p EXCEPT !.internalClock = msg.value]
    [] msg.type = "setTonePeriod" ->
         [p EXCEPT !.tones[msg.channel].period = SetPeriod(msg.value)]
    [] msg.type = "setNoisePeriod" -> [p EXCEPT !.noise.period = SetPeriod(msg.value)]
    [] msg.type = "setEnvelopePeriod" -> [p EXCEPT !.envelope.period = SetPeriod(msg.value)]
    [] msg.type = "setEnvelopeShape" -> [p EXCEPT !.envelope = EnvSetShape(@, msg.value)]
    [] msg.type = "setMixer" ->
         [p EXCEPT !.toneEnabled = [ch \in Channels |-> (msg.value \div (2 ^ ch)) % 2 = 0],
                   !.noiseEnabled = [ch \in Channels |-> (msg.value \div (2 ^ (ch + 3))) % 2 = 0]]
    [] msg.type = "setVolume" ->
         [p EXCEPT !.volumes[msg.channel] = msg.value % 16,
                   !.useEnvelope[msg.channel] = ((msg.value \div 16) % 2 # 0)]
    [] msg.type = "loadDrumSamples" -> [p EXCEPT !.drumSamples = msg.samples]
    [] msg.type = "startDrum" -> startDrum(p, msg, sr)
    [] msg.type = "stopDrum" -> [p EXCEPT !.drums[msg.channel] = DrumStop]
    [] msg.type = "startSid" ->
         [p EXCEPT !.sidVoices[msg.channel] = SidStart(@, msg.freq, msg.volume, sr, msg.isSinus)]
    [] msg.type = "stopSid" -> [p EXCEPT !.sidVoices[msg.channel] = SidStop(@)]
    [] msg.type = "startSyncBuzzer" ->
         [p EXCEPT !.syncBuzzerStep = PhaseStep(msg.freq, sr),
                   !.syncBuzzerPhase = U32Zero,
                   !.syncBuzzerEnabled = TRUE]
    [] msg.type = "stopSyncBuzzer" ->
         [p EXCEPT !.syncBuzzerEnabled = FALSE, !.syncBuzzerPhase = U32Zero,
                   !.syncBuzzerStep = 0]
    [] msg.type = "setLevelsBuffer" -> [p EXCEPT !.channelLevels = TRUE]
    [] OTHER -> p

\* The messages of a sequence handled in order.
RECURSIVE HandleAll(_, _, _)
HandleAll(p, msgs, sr) ==
  IF msgs = <<>> THEN p
  ELSE HandleAll(handleMessage(p, Head(msgs), sr), Tail(msgs), sr)

\* The generator loop of process(): n internal ticks.
RECURSIVE TickGenerators(_, _)
TickGenerators(p, n) ==
  IF n = 0 THEN p
  ELSE TickGenerators(
         [p EXCEPT !.tones = [ch \in Channels |-> ToneTick(p.tones[ch])],
                   !.noise = NoiseTick(@),
                   !.envelope = EnvTick(@)],
         n - 1)

\* One iteration of process()'s sample loop.  sinus[ch] is the value
\* Math.round(0.5 * (1 + sin(phase)) * volume) of an active sinus SID voice,
\* some level in 0..volume.
ProcessSample(p, sr, sinus) ==
  LET phase == U32Add(p.syncBuzzerPhase, p.syncBuzzerStep)
      retrig == p.syncBuzzerEnabled /\ ~U32Msb(p.syncBuzzerPhase) /\ U32Msb(phase)
      p1 == IF p.syncBuzzerEnabled
            THEN [p EXCEPT !.syncBuzzerPhase = phase,
                           !.envelope = IF retrig THEN EnvTrigger(@) ELSE @]
            ELSE p
      sidLevel(ch) == LET v == p1.sidVoices[ch]
                      IN IF v.isSinus THEN sinus[ch]
                         ELSE IF U32Msb(v.pos) THEN v.volume ELSE 0
      p2 == [p1 EXCEPT !.volumes = [ch \in Channels |->
                                      IF p1.sidVoices[ch].active THEN sidLevel(ch)
                                      ELSE p1.volumes[ch]],
                       !.sidVoices = [ch \in Channels |-> SidAdvance(p1.sidVoices[ch])]]
      acc == p2.tickAccumulator + p2.internalClock
      n == acc \div sr
      p3 == TickGenerators([p2 EXCEPT !.tickAccumulator = acc - n * sr], n)
  IN [p3 EXCEPT !.drums = [ch \in Channels |-> DrumSampleStep(p3.drums[ch])]]

\* The OR of a tone generator's output over n ticks (toneAccum).
RECURSIVE ToneAccum(_, _)
ToneAccum(t, n) ==
  IF n = 0 THEN 0 ELSE Max(ToneTick(t).output, ToneAccum(ToneTick(t), n - 1))

\* The OR of the noise output over n ticks (noiseAccum).
RECURSIVE NoiseAccum(_, _)
NoiseAccum(g, n) ==
  IF n = 0 THEN 0 ELSE Max(NoiseTick(g).output, NoiseAccum(NoiseTick(g), n - 1))

\* The mixing loop of process() for one output sample: per channel, whether
\* the AND gate let the channel index VOLUME_TABLE (never for a channel a
\* DigiDrum overrides), and the level it computes as the index.
SampleLevels(p, sr, sinus) ==
  LET after == ProcessSample(p, sr, sinus)
      n == (p.tickAccumulator + p.internalClock) \div sr
      envLevel == EnvGetLevel(after.envelope)
      gate(ch) == /\ (ToneAccum(p.tones[ch], n) # 0 \/ ~after.toneEnabled[ch])
                  /\ (NoiseAccum(p.noise, n) # 0 \/ ~after.noiseEnabled[ch])
  IN [ch \in Channels |->
        [gate |-> ~DrumPlays(p.drums[ch]) /\ gate(ch),
         level |-> IF after.useEnvelope[ch] THEN envLevel ELSE after.volumes[ch] * 2]]

\* The sample index each channel's DigiDrum reads in this output sample (-1000: none).
NoRead == 0 - 1000
DrumReadsOf(p) ==
  [ch \in Channels |-> IF DrumPlays(p.drums[ch]) THEN DrumIndex(p.drums[ch]) ELSE NoRead]

---------------------------------------------------------------------------
(* The YM effect decoder: src/src/effects.ts                               *)

MFP_PREDIV == <<0, 4, 10, 16, 50, 64, 100, 200>>

MFP_CLOCK == 2457600

EffectNone == [type |-> "none"]

decodeEffectSlotDrumVoiceOff(codeReg, predivReg, countReg, registers) ==
  LET effectCode == (codeReg \div 16) % 16
      prediv == MFP_PREDIV[((predivReg \div 32) % 8) + 1]
      counter == countReg
      freq == MFP_CLOCK \div (prediv * counter)
  IN IF effectCode = 0 THEN EffectNone
     ELSE IF prediv = 0 \/ counter = 0 THEN EffectNone
     ELSE CASE effectCode \in {1, 2, 3} ->
                 [type |-> "sid", voice |-> effectCode - 1, freq |-> freq,
                  volume |-> registers[8 + (effectCode - 1)] % 16]
            [] effectCode \in {5, 6, 7} ->
                 [type |-> "digidrum", voice |-> effectCode - 4,
                  drumNum |-> registers[8 + (effectCode - 5)] % 32, freq |-> freq]
            [] effectCode \in {9, 10, 11} ->
                 [type |-> "sinusSid", voice |-> effectCode - 9, freq |-> freq,
                  volume |-> registers[8 + (effectCode - 9)] % 16]
            [] effectCode \in {13, 14, 15} ->
                 [type |-> "syncBuzzer", freq |-> freq, envShape |-> registers[13] % 16]
            [] OTHER -> EffectNone

\* decodeEffectSlot
decodeEffectSlot(codeReg, predivReg, countReg, registers) ==
  LET effectCode == (codeReg \div 16) % 16
      prediv == MFP_PREDIV[((predivReg \div 32) % 8) + 1]
      counter == countReg
      freq == MFP_CLOCK \div (prediv * counter)
  IN IF effectCode = 0 THEN EffectNone
     ELSE IF prediv = 0 \/ counter = 0 THEN EffectNone
     ELSE CASE effectCode \in {1, 2, 3} ->
                 [type |-> "sid", voice |-> effectCode - 1, freq |-> freq,
                  volume |-> registers[8 + (effectCode - 1)] % 16]
            [] effectCode \in {5, 6, 7} ->
                 [type |-> "digidrum", voice |-> effectCode - 5,
                  drumNum |-> registers[8 + (effectCode - 5)] % 32, freq |-> freq]
            [] effectCode \in {9, 10, 11} ->
                 [type |-> "sinusSid", voice |-> effectCode - 9, freq |-> freq,
                  volume |-> registers[8 + (effectCode - 9)] % 16]
            [] effectCode \in {13, 14, 15} ->
                 [type |-> "syncBuzzer", freq |-> freq, envShape |-> registers[13] % 16]
            [] OTHER -> EffectNone

\* decodeEffectsYm6
decodeEffectsYm6(registers) ==
  <<decodeEffectSlot(registers[1], registers[6], registers[14], registers),
    decodeEffectSlot(registers[3], registers[8], registers[15], registers)>>

decodeEffectsYm5IgnoresCounter(registers) ==
  LET sidCode == (registers[1] \div 16) % 4
      sidPrediv == MFP_PREDIV[((registers[6] \div 32) % 8) + 1]
      sidCount == registers[14]
      sid == IF sidCode # 0 /\ sidPrediv # 0 /\ sidCount # 0
             THEN <<[type |-> "sid", voice |-> sidCode - 1,
                     freq |-> MFP_CLOCK \div (sidPrediv * sidCount),
                     volume |-> registers[8 + (sidCode - 1)] % 16]>>
             ELSE <<>>
      drumCode == (registers[3] \div 16) % 4
      drumPrediv == MFP_PREDIV[((registers[8] \div 32) % 8) + 1]
      drumCount == registers[15]
      drum == IF drumCode # 0 /\ drumPrediv # 0 /\ drumCount # 0
              THEN <<[type |-> "digidrum", voice |-> drumCode - 1,
                      drumNum |-> registers[8 + (drumCode - 1)] % 32,
                      freq |-> MFP_CLOCK \div drumPrediv]>>
              ELSE <<>>
  IN sid \o drum

\* decodeEffectsYm5
decodeEffectsYm5(registers) ==
  LET sidCode == (registers[1] \div 16) % 4
      sidPrediv == MFP_PREDIV[((registers[6] \div 32) % 8) + 1]
      sidCount == registers[14]
      sid == IF sidCode # 0 /\ sidPrediv # 0 /\ sidCount # 0
             THEN <<[type |-> "sid", voice |-> sidCode - 1,
                     freq |-> MFP_CLOCK \div (sidPrediv * sidCount),
                     volume |-> registers[8 + (sidCode - 1)] % 16]>>
             ELSE <<>>
      drumCode == (registers[3] \div 16) % 4
      drumPrediv == MFP_PREDIV[((registers[8] \div 32) % 8) + 1]
      drumCount == registers[15]
      drum == IF drumCode # 0 /\ drumPrediv # 0 /\ drumCount # 0
              THEN <<[type |-> "digidrum", voice |-> drumCode - 1,
                      drumNum |-> registers[8 + (drumCode - 1)] % 32,
                      freq |-> MFP_CLOCK \div (drumPrediv * drumCount)]>>
              ELSE <<>>
  IN sid \o drum

---------------------------------------------------------------------------
(* Frame application: YmReplayer.applyFrame / applyEffects, the same text  *)
(* in src/packages/core/src/replayer.ts and in the BaseReplayer-derived    *)
(* YmReplayer.                                                             *)

OrOne(x) == IF x = 0 THEN 1 ELSE x

\* applyFrame up to the call of applyEffects: the register writes.
RegisterWritesShapeAlways(frame) ==
  <<MsgCV("setTonePeriod", 0, OrOne(frame[0] + (frame[1] % 16) * 256)),
    MsgCV("setTonePeriod", 1, OrOne(frame[2] + (frame[3] % 16) * 256)),
    MsgCV("setTonePeriod", 2, OrOne(frame[4] + (frame[5] % 16) * 256)),
    MsgV("setNoisePeriod", OrOne(frame[6] % 32)),
    MsgV("setMixer", frame[7]),
    MsgCV("setVolume", 0, frame[8]),
    MsgCV("setVolume", 1, frame[9]),
    MsgCV("setVolume", 2, frame[10]),
    MsgV("setEnvelopePeriod", OrOne(frame[11] + frame[12] * 256)),
    MsgV("setEnvelopeShape", frame[13] % 16)>>

RegisterWrites(frame) ==
  <<MsgCV("setTonePeriod", 0, OrOne(frame[0] + (frame[1] % 16) * 256)),
    MsgCV("setTonePeriod", 1, OrOne(frame[2] + (frame[3] % 16) * 256)),
    MsgCV("setTonePeriod", 2, OrOne(frame[4] + (frame[5] % 16) * 256)),
    MsgV("setNoisePeriod", OrOne(frame[6] % 32)),
    MsgV("setMixer", frame[7]),
    MsgCV("setVolume", 0, frame[8]),
    MsgCV("setVolume", 1, frame[9]),
    MsgCV("setVolume", 2, frame[10]),
    MsgV("setEnvelopePeriod", OrOne(frame[11] + frame[12] * 256))>>
  \o (IF frame[13] # 255 THEN <<MsgV("setEnvelopeShape", frame[13] % 16)>> ELSE <<>>)

\* The effects applyEffects decodes for a frame of a file of this format.
DecodedEffects(format, frame) ==
  IF format \in {"YM2", "YM3", "YM3b"} THEN <<>>
  ELSE IF format = "YM6" THEN decodeEffectsYm6(frame)
  ELSE decodeEffectsYm5(frame)

\* The start message the effect loop of applyEffects posts for one effect.
EffectStart(e, nDrums) ==
  CASE e.type \in {"sid", "sinusSid"} ->
         <<[type |-> "startSid", channel |-> e.voice, freq |-> e.freq,
            volume |-> e.volume, isSinus |-> (e.type = "sinusSid")]>>
    [] e.type = "digidrum" /\ nDrums > 0 ->
         <<[type |-> "startDrum", channel |-> e.voice, drumNum |-> e.drumNum,
            freq |-> e.freq]>>
    [] e.type = "syncBuzzer" -> <<[type |-> "startSyncBuzzer", freq |-> e.freq]>>
    [] OTHER -> <<>>

RECURSIVE EffectStarts(_, _)
EffectStarts(effects, nDrums) ==
  IF effects = <<>> THEN <<>>
  ELSE EffectStart(Head(effects), nDrums) \o EffectStarts(Tail(effects), nDrums)

sidActiveThisFrame(effects) ==
  [ch \in Channels |-> \E i \in 1 .. Len(effects) :
                          effects[i].type \in {"sid", "sinusSid"} /\ effects[i].voice = ch]

syncBuzzerActiveThisFrame(effects) ==
  \E i \in 1 .. Len(effects) : effects[i].type = "syncBuzzer"

\* The stop loop of applyEffects.
RECURSIVE SidStops(_, _, _)
SidStops(ch, wasActive, nowActive) ==
  IF ch > 2 THEN <<>>
  ELSE (IF wasActive[ch] /\ ~nowActive[ch] THEN <<MsgC("stopSid", ch)>> ELSE <<>>)
       \o SidStops(ch + 1, wasActive, nowActive)

\* applyEffects: the messages it posts, given the tracking state.
EffectWrites(format, frame, nDrums, wasSid, wasBuzzer) ==
  LET effects == DecodedEffects(format, frame)
  IN IF format \in {"YM2", "YM3", "YM3b"} THEN <<>>
     ELSE EffectStarts(effects, nDrums)
          \o SidStops(0, wasSid, sidActiveThisFrame(effects))
          \o (IF wasBuzzer /\ ~syncBuzzerActiveThisFrame(effects)
              THEN <<Msg("stopSyncBuzzer")>> ELSE <<>>)

\* applyEffects: the tracking state it leaves.
TrackedSid(format, frame, wasSid) ==
  IF format \in {"YM2", "YM3", "YM3b"} THEN wasSid
  ELSE sidActiveThisFrame(DecodedEffects(format, frame))

TrackedBuzzer(format, frame, wasBuzzer) ==
  IF format \in {"YM2", "YM3", "YM3b"} THEN wasBuzzer
  ELSE syncBuzzerActiveThisFrame(DecodedEffects(format, frame))

\* applyFrame: every message it posts, in order.
applyFrame(format, frame, nDrums, wasSid, wasBuzzer) ==
  RegisterWrites(frame) \o EffectWrites(format, frame, nDrums, wasSid, wasBuzzer)

\* A 16-byte register frame with the registers the effects use set.
MkFrame(r1, r3, r6, r8, r13, r14, r15) ==
  [i \in 0 .. 15 |->
     CASE i = 0 -> 28
       [] i = 1 -> r1
       [] i = 3 -> r3
       [] i = 6 -> r6
       [] i = 7 -> 56
       [] i = 8 -> r8
       [] i = 11 -> 2
       [] i = 13 -> r13
       [] i = 14 -> r14
       [] i = 15 -> r15
       [] OTHER -> 0]

FramePlain == MkFrame(0, 0, 0, 10, 255, 0, 0)        \* R13 = 0xFF, no effect
FrameShape == MkFrame(0, 0, 0, 26, 30, 0, 0)         \* R13 = 0x1E
FrameSid   == MkFrame(16, 0, 32, 12, 255, 200, 0)    \* slot 1: SID voice A
FrameSinus == MkFrame(160, 0, 32, 12, 255, 200, 0)   \* slot 1: sinus SID voice B (YM6)
FrameBuzz  == MkFrame(0, 208, 0, 32, 10, 0, 100)     \* slot 2: Sync Buzzer (YM6)
FrameDrum  == MkFrame(0, 80, 0, 32, 255, 0, 4)       \* slot 2: DigiDrum voice A

Frames == {FramePlain, FrameShape, FrameSid, FrameSinus, FrameBuzz, FrameDrum}

\* A DigiDrum sample, and the sample tables a file may carry.
DrumData == <<10, 20, 30>>
DrumBanks == {<<>>, <<DrumData>>}

---------------------------------------------------------------------------
(* Values shared by the specifications                                     *)

NoNode == [null |-> TRUE]
NoFile == [null |-> TRUE]
NoPlayer == [null |-> TRUE]
NoSnap == [null |-> TRUE]
NoSid == [ch \in Channels |-> FALSE]
NoReads == [ch \in Channels |-> NoRead]
NoArg == [none |-> TRUE]
NoLevels == [ch \in Channels |-> [gate |-> FALSE, level |-> 0]]

\* AudioContext sample rates.
SampleRates == {44100, 48000}

\* A parsed YM file (parseYmFile's result, the fields the replayers read).
YmFile(format, frames, loopFrame, digidrums, masterClock) ==
  [type |-> "ym", format |-> format, masterClock |-> masterClock, frameRate |-> 50,
   frameCount |-> Len(frames), loopFrame |-> loopFrame, frames |-> frames,
   digidrums |-> digidrums]

\* frames[i] of a file, 0-based as in the source.
FrameAt(f, i) == f.frames[i + 1]

---------------------------------------------------------------------------
(* The chip proxy: class YM2149 of src/packages/core/src/ym2149.ts.  The   *)
(* operators work on a record of the chip's fields; out collects the       *)
(* messages the call hands to a node's port.                               *)

ChipNow ==
  [node |-> workletNode, ready |-> workletReady, pending |-> pendingMessages,
   out |-> <<>>, created |-> FALSE, flushed |-> <<>>]

\* workletNode.port.postMessage(msg): the node's processor handles msg.
PortPost(c, msg, sr) ==
  [c EXCEPT !.node = handleMessage(c.node, msg, sr), !.out = Append(c.out, msg)]

\* YM2149.postMessage
postMessage(c, msg, sr) ==
  IF c.node # NoNode /\ c.ready THEN PortPost(c, msg, sr)
  ELSE [c EXCEPT !.pending = Append(c.pending, msg)]

\* The messages of a sequence posted through the chip in order.
RECURSIVE PostAll(_, _, _)
PostAll(c, msgs, sr) ==
  IF msgs = <<>> THEN c ELSE PostAll(postMessage(c, Head(msgs), sr), Tail(msgs), sr)

RECURSIVE PortPostAll(_, _, _)
PortPostAll(c, msgs, sr) ==
  IF msgs = <<>> THEN c ELSE PortPostAll(PortPost(c, Head(msgs), sr), Tail(msgs), sr)

\* A flush that forgets to empty the queue.
FlushPendingKeepsQueue(c, sr) == PortPostAll(c, c.pending, sr)

\* initWorklet, "Send any pending messages"
FlushPending(c, sr) == [PortPostAll(c, c.pending, sr) EXCEPT !.pending = <<>>]

\* initWorklet from the creation of the AudioWorkletNode on (SharedArrayBuffer
\* is available, so the levels buffer is posted).
CreateNode(c, sr) ==
  FlushPending(
    PortPost([c EXCEPT !.node = NewProcessor, !.ready = TRUE,
                       !.created = TRUE, !.flushed = c.pending],
             Msg("setLevelsBuffer"), sr),
    sr)

\* initWorklet up to its first suspension: stage says where the call is.
initWorklet(c, loaded, sr) ==
  IF c.ready THEN [stage |-> "done", chip |-> c]
  ELSE IF ~loaded THEN [stage |-> "addModule", chip |-> c]
  ELSE [stage |-> "done", chip |-> CreateNode(c, sr)]

\* YM2149.start up to its first suspension.
start(c, suspended, loaded, sr) ==
  IF suspended THEN [stage |-> "resume", chip |-> c] ELSE initWorklet(c, loaded, sr)

\* YM2149.stop and YM2149.dispose: the same statements.
chipStop(c) == [c EXCEPT !.node = NoNode, !.ready = FALSE]

\* awaiting after a call reached this stage.
Suspend(aw, stage) ==
  CASE stage = "resume" -> <<aw[1] + 1, aw[2]>>
    [] stage = "addModule" -> <<aw[1], aw[2] + 1>>
    [] OTHER -> aw

\* The posted messages among those a port was handed.
RECURSIVE Posted(_)
Posted(msgs) ==
  IF msgs = <<>> THEN <<>>
  ELSE (IF Head(msgs).type = "setLevelsBuffer" THEN <<>> ELSE <<Head(msgs)>>)
       \o Posted(Tail(msgs))

---------------------------------------------------------------------------
(* SpecPsg: one processor, fed messages, register frames and output        *)
(* samples in any order.                                                   *)

MaxPsgSteps == 4

PsgMessages ==
  {Msg("reset"),
   MsgV("setInternalClock", 221675),
   MsgCV("setVolume", 1, 27),
   [type |-> "startSid", channel |-> 2, freq |-> 3072, volume |-> 18, isSinus |-> TRUE],
   [type |-> "startSyncBuzzer", freq |-> 12000],
   MsgV("setEnvelopeShape", 12)}

\* The levels the sinus SID voices may produce in one sample.
SinusRange(v) == IF v.active /\ v.isSinus THEN 0 .. v.volume ELSE {0}
SinusLevels(p) ==
  {[ch \in Channels |-> CASE ch = 0 -> a [] ch = 1 -> b [] OTHER -> c] :
     a \in SinusRange(p.sidVoices[0]), b \in SinusRange(p.sidVoices[1]),
     c \in SinusRange(p.sidVoices[2])}

\* A replayer that has been constructed and nothing else.
DriverConstructed ==
  /\ currentFrame = 0
  /\ state = "stopped"
  /\ intervalId = FALSE
  /\ timers = 0
  /\ activeSid = NoSid
  /\ activeSyncBuzzer = FALSE
  /\ disposed = FALSE

HistoryEmpty ==
  /\ op = "init"
  /\ sent = <<>>
  /\ delivered = <<>>
  /\ firstSnap = NoSnap
  /\ lastSnap = NoSnap
  /\ fresh = FALSE
  /\ drumReads = NoReads
  /\ portLog = <<>>
  /\ steps = 0
  /\ levels = NoLevels

\* The batch envelope generator as constructed (field initialisers).  Its
\* dataOffset is SHAPE_TO_ENV[shape] * 128 of a table module that selects which
\* 128 entries position + 64 indexes; the position does not depend on it.
NewBatchEnvelope == [counter |-> 0, period |-> 0, position |-> 0, lastShape |-> 0 - 1]

\* No AudioWorkletNode has been created: made lists the nodes created since
\* the last stop() in order of creation, each with whether it is connected
\* to the destination, the messages its port was handed and those of them
\* that came from pendingMessages; held is the index of the node the chip
\* object's workletNode field refers to, or 0.
NoNodes == [made |-> <<>>, held |-> 0]

\* The ticker worker's module variables as the module leaves them
\* (intervalId = null, frameIntervalMs = 0, nextFrameTime = 0), with the
\* clock (performance.now(), in whole milliseconds), the number of live
\* setInterval registrations and a history: the time of the last start,
\* the ticks posted since, the ticks the last step posted, the ticks posted
\* while intervalId was null, and the step taken last.
NoTicker ==
  [intervalId |-> FALSE, frameIntervalMs |-> 0, nextFrameTime |-> 0, now |-> 0,
   polls |-> 0, started |-> 0, emitted |-> 0, posted |-> 0, stray |-> 0,
   last |-> "none"]

\* The objects exercised on their own, as constructed.
NoInput == [len |-> 0, base |-> 0, patches |-> <<>>]
NotParsed == [ok |-> FALSE, error |-> "not parsed"]
NoPt3 == [loaded |-> FALSE]

UnitsIdle ==
  /\ envGen = NewBatchEnvelope
  /\ ticker = NoTicker
  /\ nodes = NoNodes
  /\ input = NoInput
  /\ parsed = NotParsed
  /\ pt3 = NoPt3

InitPsg ==
  /\ sampleRate \in SampleRates
  /\ workletNode = NewProcessor
  /\ workletReady = TRUE
  /\ pendingMessages = <<>>
  /\ moduleLoaded = TRUE
  /\ awaiting = <<0, 0>>
  /\ kind = "core"
  /\ \E format \in {"YM3", "YM5", "YM6"}, d \in DrumBanks :
       file = YmFile(format, <<FramePlain>>, 0, d, 2000000)
  /\ player = NoPlayer
  /\ arg = NoArg
  /\ DriverConstructed
  /\ HistoryEmpty
  /\ UnitsIdle

\* port.onmessage: the processor handles one message.
PsgMessage ==
  /\ steps < MaxPsgSteps
  /\ \E msg \in PsgMessages \cup {[type |-> "loadDrumSamples", samples |-> file.digidrums]} :
       /\ workletNode' = handleMessage(workletNode, msg, sampleRate)
       /\ arg' = [msg |-> msg]
       /\ sent' = <<msg>>
       /\ delivered' = <<msg>>
  /\ op' = "message"
  /\ drumReads' = NoReads
  /\ steps' = steps + 1
  /\ UNCHANGED <<sampleRate, levels, unitVars, workletReady, pendingMessages, moduleLoaded, awaiting,
                 drvVars, snapVars, portLog>>

\* YmReplayer.applyFrame on a ready chip: the frame's messages reach the
\* processor in posting order.
PsgFrame ==
  /\ steps < MaxPsgSteps
  /\ \E frame \in Frames :
       LET msgs == applyFrame(file.format, frame, Len(file.digidrums), activeSid,
                              activeSyncBuzzer)
       IN /\ workletNode' = HandleAll(workletNode, msgs, sampleRate)
          /\ activeSid' = TrackedSid(file.format, frame, activeSid)
          /\ activeSyncBuzzer' = TrackedBuzzer(file.format, frame, activeSyncBuzzer)
          /\ arg' = [frame |-> frame]
          /\ sent' = msgs
          /\ delivered' = msgs
  /\ op' = "frame"
  /\ drumReads' = NoReads
  /\ steps' = steps + 1
  /\ UNCHANGED <<sampleRate, levels, unitVars, workletReady, pendingMessages, moduleLoaded, awaiting,
                 kind, file, currentFrame, state, intervalId, timers, player, disposed,
                 snapVars, portLog>>

\* process(): one output sample.
PsgSample ==
  /\ steps < MaxPsgSteps
  /\ \E sinus \in SinusLevels(workletNode) :
       /\ workletNode' = ProcessSample(workletNode, sampleRate, sinus)
       /\ levels' = SampleLevels(workletNode, sampleRate, sinus)
  /\ drumReads' = DrumReadsOf(workletNode)
  /\ op' = "sample"
  /\ arg' = NoArg
  /\ sent' = <<>>
  /\ delivered' = <<>>
  /\ steps' = steps + 1
  /\ UNCHANGED <<sampleRate, unitVars, workletReady, pendingMessages, moduleLoaded, awaiting,
                 drvVars, snapVars, portLog>>

NextPsg == PsgMessage \/ PsgFrame \/ PsgSample

SpecPsg == InitPsg /\ [][NextPsg]_vars

\* The externally visible reset state of a processor: everything the
\* 'reset' message is about (not the clock, the sample table, the levels buffer).
ResetView(p) ==
  [p EXCEPT !.internalClock = 0, !.drumSamples = <<>>, !.channelLevels = FALSE]

\* C3: after a 'reset' message the tone, noise and envelope generators, the
\* mixer enables, the three volume registers and envelope flags, the DigiDrum,
\* SID and Sync Buzzer state and the tick accumulator equal their values
\* right after construction.
C3_ResetRestoresConstruction ==
  (op = "message" /\ arg = [msg |-> Msg("reset")]) =>
    ResetView(workletNode) = ResetView(NewProcessor)

\* C4: a frame whose R13 is 0xFF posts no envelope-shape write and leaves the
\* envelope position, counter and shape as they were; a frame with any other
\* R13 posts the shape R13 & 0x0F, and the envelope then has that shape and
\* position -64.
C4_EnvelopeShapeWrite ==
  [][op' = "frame" =>
       IF arg'.frame[13] = 255
       THEN /\ \A i \in 1 .. Len(sent') : sent'[i].type # "setEnvelopeShape"
            /\ workletNode'.envelope.position = workletNode.envelope.position
            /\ workletNode'.envelope.counter = workletNode.envelope.counter
            /\ workletNode'.envelope.shape = workletNode.envelope.shape
       ELSE /\ \E i \in 1 .. Len(sent') : sent'[i] = MsgV("setEnvelopeShape", arg'.frame[13] % 16)
            /\ workletNode'.envelope.shape = arg'.frame[13] % 16
            /\ workletNode'.envelope.position = -64]_vars

\* C4 witness: a frame with R13 = 0xFF was applied to an envelope that an
\* earlier frame had given shape 14 and that has since moved off -64.
C4_Witness ==
  /\ op = "frame"
  /\ arg.frame[13] = 255
  /\ workletNode.envelope.shape = 14
  /\ workletNode.envelope.position # -64

---------------------------------------------------------------------------
(* SpecDrum: a DigiDrum started from a decoded effect (or directly, at the  *)
(* sample rate) and then played sample by sample.                          *)

MaxDrumSteps == 6

\* Timer counts (R15) of the drum effect; every prescaler index 1..7 is used.
DrumCounters == {1, 5, 51, 255}

\* A YM6 frame whose second effect slot starts DigiDrum 0 on voice A with
\* this prescaler index and timer count.
DrumFrame(prediv, count) == MkFrame(0, 80, 0, prediv * 32, 255, 0, count)

InitDrum ==
  /\ sampleRate \in SampleRates \cup {96000}
  /\ file = YmFile("YM6", <<FramePlain>>, 0, <<DrumData>>, 2000000)
  /\ workletNode = handleMessage(NewProcessor,
                                 [type |-> "loadDrumSamples", samples |-> file.digidrums],
                                 sampleRate)
  /\ workletReady = TRUE
  /\ pendingMessages = <<>>
  /\ moduleLoaded = TRUE
  /\ awaiting = <<0, 0>>
  /\ kind = "core"
  /\ player = NoPlayer
  /\ \E prediv \in 1 .. 7, count \in DrumCounters : arg = [frame |-> DrumFrame(prediv, count)]
  /\ DriverConstructed
  /\ HistoryEmpty
  /\ UnitsIdle

\* applyFrame of the chosen drum frame: startDrum with the decoded frequency.
DrumTrigger ==
  /\ steps < MaxDrumSteps
  /\ LET msgs == applyFrame(file.format, arg.frame, Len(file.digidrums), activeSid,
                            activeSyncBuzzer)
     IN /\ workletNode' = HandleAll(workletNode, msgs, sampleRate)
        /\ sent' = msgs
        /\ delivered' = msgs
  /\ op' = "frame"
  /\ drumReads' = NoReads
  /\ steps' = steps + 1
  /\ UNCHANGED <<sampleRate, levels, unitVars, workletReady, pendingMessages, moduleLoaded, awaiting,
                 drvVars, snapVars, arg, portLog>>

\* YM2149.startDrum(1, 0, sampleRate): a drum played at the output rate.
DrumStartAtRate ==
  /\ steps < MaxDrumSteps
  /\ LET msg == [type |-> "startDrum", channel |-> 1, drumNum |-> 0, freq |-> sampleRate]
     IN /\ workletNode' = handleMessage(workletNode, msg, sampleRate)
        /\ sent' = <<msg>>
        /\ delivered' = <<msg>>
  /\ op' = "message"
  /\ drumReads' = NoReads
  /\ steps' = steps + 1
  /\ UNCHANGED <<sampleRate, levels, unitVars, workletReady, pendingMessages, moduleLoaded, awaiting,
                 drvVars, snapVars, arg, portLog>>

\* process(): one output sample.
DrumSample ==
  /\ steps < MaxDrumSteps
  /\ workletNode' = ProcessSample(workletNode, sampleRate, [ch \in Channels |-> 0])
  /\ levels' = SampleLevels(workletNode, sampleRate, [ch \in Channels |-> 0])
  /\ drumReads' = DrumReadsOf(workletNode)
  /\ op' = "sample"
  /\ sent' = <<>>
  /\ delivered' = <<>>
  /\ steps' = steps + 1
  /\ UNCHANGED <<sampleRate, unitVars, workletReady, pendingMessages, moduleLoaded, awaiting,
                 drvVars, snapVars, arg, portLog>>

NextDrum == DrumTrigger \/ DrumStartAtRate \/ DrumSample

SpecDrum == InitDrum /\ [][NextDrum]_vars

\* C6: a DigiDrum started with a frequency the effect decoder can produce
\* reads only sample indices in [0, L), L the sample's length.
C6_DrumReadsInRange ==
  \A ch \in Channels :
    drumReads[ch] # NoRead => drumReads[ch] \in 0 .. (Len(DrumData) - 1)

---------------------------------------------------------------------------
(* SpecChip: one YM2149 chip object; numbered messages are posted while    *)
(* start() calls begin, suspend and complete and stop() calls intervene.   *)

MaxMsgs == 4
MaxInflight == 2

InitChip ==
  /\ sampleRate = 48000
  /\ workletNode = NoNode
  /\ workletReady = FALSE
  /\ pendingMessages = <<>>
  /\ moduleLoaded = FALSE
  /\ awaiting = <<0, 0>>
  /\ kind = "chip"
  /\ file = NoFile
  /\ player = NoPlayer
  /\ arg = NoArg
  /\ DriverConstructed
  /\ HistoryEmpty
  /\ UnitsIdle

\* The node history after a chip step: new AudioWorkletNode(...) followed by
\* connect(destination) adds a node and makes it the held one, stop()
\* disconnects the held node only and starts a new history, and a posted
\* message goes to the held node's port.
NodesAfter(c, name) ==
  IF c.created
    THEN [made |-> Append(nodes.made, [connected |-> TRUE, port |-> c.out,
                                       queued |-> c.flushed]),
          held |-> Len(nodes.made) + 1]
  ELSE IF name = "stop" THEN NoNodes
  ELSE IF nodes.held # 0
    THEN [nodes EXCEPT !.made[nodes.held].port = @ \o c.out]
  ELSE nodes

\* What a chip step leaves: the chip's fields and the histories.
ChipBecomes(c, name) ==
  /\ nodes' = NodesAfter(c, name)
  /\ workletNode' = c.node
  /\ workletReady' = c.ready
  /\ pendingMessages' = c.pending
  /\ delivered' = c.out
  /\ portLog' = portLog \o Posted(c.out)
  /\ op' = name
  /\ UNCHANGED <<sampleRate, levels, envGen, input, parsed, pt3, ticker, drvVars,
                 snapVars, drumReads>>

\* The chip's n-th posted message: setNoisePeriod(n).
ChipPost ==
  /\ steps < MaxMsgs
  /\ LET msg == MsgV("setNoisePeriod", steps + 1)
     IN /\ ChipBecomes(postMessage(ChipNow, msg, sampleRate), "post")
        /\ sent' = <<msg>>
        /\ arg' = [msg |-> msg]
  /\ steps' = steps + 1
  /\ UNCHANGED <<moduleLoaded, awaiting>>

\* start() is called; the AudioContext is suspended or running.
ChipStart ==
  /\ awaiting[1] + awaiting[2] < MaxInflight
  /\ \E suspended \in BOOLEAN :
       LET r == start(ChipNow, suspended, moduleLoaded, sampleRate)
       IN /\ ChipBecomes(r.chip, "start")
          /\ awaiting' = Suspend(awaiting, r.stage)
  /\ sent' = <<>>
  /\ arg' = NoArg
  /\ UNCHANGED <<moduleLoaded, steps>>

\* audioContext.resume() resolves for one suspended start().
ChipResumed ==
  /\ awaiting[1] > 0
  /\ LET r == initWorklet(ChipNow, moduleLoaded, sampleRate)
     IN /\ ChipBecomes(r.chip, "resumed")
        /\ awaiting' = Suspend(<<awaiting[1] - 1, awaiting[2]>>, r.stage)
  /\ sent' = <<>>
  /\ arg' = NoArg
  /\ UNCHANGED <<moduleLoaded, steps>>

\* audioWorklet.addModule() resolves for one suspended initWorklet().
ChipModuleAdded ==
  /\ awaiting[2] > 0
  /\ ChipBecomes(CreateNode(ChipNow, sampleRate), "moduleAdded")
  /\ awaiting' = <<awaiting[1], awaiting[2] - 1>>
  /\ moduleLoaded' = TRUE
  /\ sent' = <<>>
  /\ arg' = NoArg
  /\ UNCHANGED steps

\* YM2149.stop()
ChipStop ==
  /\ ChipBecomes(chipStop(ChipNow), "stop")
  /\ sent' = <<>>
  /\ arg' = NoArg
  /\ UNCHANGED <<moduleLoaded, awaiting, steps>>

NextChip == ChipPost \/ ChipStart \/ ChipResumed \/ ChipModuleAdded \/ ChipStop

SpecChip == InitChip /\ [][NextChip]_vars

\* The messages numbered 1..n in order.
Numbered(n) == [i \in 1 .. n |-> MsgV("setNoisePeriod", i)]

\* C8: the messages a node's port has been handed, followed by those still
\* queued, are the posted messages in posting order, each exactly once; and
\* nothing is queued while a ready node exists.
C8_PostingOrderKept ==
  /\ portLog \o pendingMessages = Numbered(steps)
  /\ (workletNode # NoNode /\ workletReady) => pendingMessages = <<>>

\* C8 witness: messages queued before the worklet was ready have been
\* delivered, and a later message was posted to the ready node after them.
C8_Witness ==
  /\ op = "post"
  /\ delivered = <<Numbered(3)[3]>>
  /\ portLog = Numbered(3)
  /\ workletNode # NoNode

---------------------------------------------------------------------------
(* The PT3 player: class Pt3Player of src/packages/core/src/pt3/player.ts.  *)
(* Kept: the position in the position list, the rows of the current        *)
(* pattern already interpreted, and the finished flag.  The pattern        *)
(* interpreter is reduced to patterns of file.rows rows played one row per *)
(* tick, and the registers a tick returns depend on position and row only. *)

ZX_SPECTRUM_CLOCK == 1773400

\* A parsed single-module PT3 file (isTurboSound false): positionList holds
\* the pattern numbers, patternCount is patterns.length.
Pt3File(positionList, loopPosition, patternCount) ==
  [type |-> "pt3", numberOfPositions |-> Len(positionList), loopPosition |-> loopPosition,
   positionList |-> positionList, patternCount |-> patternCount, delay |-> 1,
   rows |-> 2]

\* Pt3Player.initPosition
initPosition(pl, f, position) ==
  IF position >= f.numberOfPositions THEN [pl EXCEPT !.finished = TRUE]
  ELSE IF f.positionList[position + 1] >= f.patternCount THEN [pl EXCEPT !.finished = TRUE]
  ELSE [pl EXCEPT !.row = 0]

\* Pt3Player.reset (and the constructor, which does the same)
playerReset(f) ==
  initPosition([currentPosition |-> 0, row |-> 0, finished |-> FALSE], f, 0)

\* Pt3Player.tick: the player after the tick
playerTick(pl, f) ==
  IF pl.finished THEN pl
  ELSE IF pl.row >= f.rows
       THEN LET next == IF pl.currentPosition + 1 >= f.numberOfPositions
                        THEN f.loopPosition ELSE pl.currentPosition + 1
                moved == initPosition([pl EXCEPT !.currentPosition = next], f, next)
            IN [moved EXCEPT !.row = IF moved.finished THEN pl.row ELSE 1]
       ELSE [pl EXCEPT !.row = pl.row + 1]

\* createAyRegisters
createAyRegisters ==
  [toneA |-> 0, toneB |-> 0, toneC |-> 0, noise |-> 0, mixer |-> 63, volumeA |-> 0,
   volumeB |-> 0, volumeC |-> 0, envelopePeriod |-> 0, envelopeShape |-> 255]

\* Pt3Player.tick: the registers it returns, for the player state it leaves
playerRegisters(before, after) ==
  IF before.finished THEN createAyRegisters
  ELSE [createAyRegisters EXCEPT !.toneA = 100 + after.currentPosition,
                                 !.mixer = 56,
                                 !.volumeA = 8 + after.row,
                                 !.envelopeShape = IF after.row = 1 THEN 8 ELSE 255]

\* Pt3Replayer.applyRegisters
applyRegisters(regs) ==
  <<MsgCV("setTonePeriod", 0, OrOne(regs.toneA)),
    MsgCV("setTonePeriod", 1, OrOne(regs.toneB)),
    MsgCV("setTonePeriod", 2, OrOne(regs.toneC)),
    MsgV("setNoisePeriod", OrOne(regs.noise)),
    MsgV("setMixer", regs.mixer),
    MsgCV("setVolume", 0, regs.volumeA),
    MsgCV("setVolume", 1, regs.volumeB),
    MsgCV("setVolume", 2, regs.volumeC),
    MsgV("setEnvelopePeriod", OrOne(regs.envelopePeriod))>>
  \o (IF regs.envelopeShape # 255
      THEN <<MsgV("setEnvelopeShape", regs.envelopeShape % 16)>> ELSE <<>>)

\* Pt3Replayer.estimateTotalFrames
estimateTotalFrames(f) == f.numberOfPositions * 64 * (IF f.delay = 0 THEN 3 ELSE f.delay)

\* Pt3Replayer.seek's fast-forward loop: <<player, currentFrame>> at its end
RECURSIVE FastForward(_, _, _, _)
FastForward(pl, f, frame, target) ==
  IF frame < target /\ ~pl.finished
  THEN FastForward(playerTick(pl, f), f, frame + 1, target)
  ELSE <<pl, frame>>

---------------------------------------------------------------------------
(* The replayers.  kind says which class drives the chip:                  *)
(*   "core"  YmReplayer of src/packages/core/src/replayer.ts               *)
(*   "base"  YmReplayer extends BaseReplayer (src/unnamed/part_011 over    *)
(*           the BaseReplayer of src/packages/demo/vite.config.ts)         *)
(*   "pt3"   Pt3Replayer of src/packages/core/src/pt3/replayer.ts          *)
(* Each replayer owns its chip (ownsChip).  An await that only yields to   *)
(* the microtask queue is taken together with the code around it; a call   *)
(* suspends at audioContext.resume() and at audioWorklet.addModule().      *)

\* The files loaded: YM files as parseYmFile accepts them (it does not
\* check loopFrame against frameCount) and PT3 files as parsePt3Module does.
YmFiles ==
  {YmFile("YM6", <<FramePlain, FrameSid>>, 0, <<>>, 2000000),
   YmFile("YM5", <<FrameDrum, FrameShape>>, 1, <<DrumData>>, 1773400),
   YmFile("YM6", <<FrameBuzz, FramePlain>>, 5, <<>>, 2000000)}

Pt3Files ==
  {Pt3File(<<0, 1>>, 0, 2), Pt3File(<<0>>, 3, 1), Pt3File(<<>>, 0, 1)}

FilesOf(k) == IF k = "pt3" THEN Pt3Files ELSE YmFiles

\* silenceChip of the BaseReplayer-derived YmReplayer; pause and stop of the
\* core YmReplayer post the same messages.
silenceChip ==
  <<MsgC("stopSid", 0), MsgC("stopDrum", 0), MsgC("stopSid", 1), MsgC("stopDrum", 1),
    MsgC("stopSid", 2), MsgC("stopDrum", 2), Msg("stopSyncBuzzer"),
    MsgCV("setVolume", 0, 0), MsgCV("setVolume", 1, 0), MsgCV("setVolume", 2, 0)>>

\* Pt3Replayer.pause / stop: "Silence all channels on first chip"
silencePt3 ==
  <<MsgCV("setVolume", 0, 0), MsgCV("setVolume", 1, 0), MsgCV("setVolume", 2, 0)>>

Silence(k) == IF k = "pt3" THEN silencePt3 ELSE silenceChip

\* The chip configuration load() posts after ym.reset().
ConfigureYm(f) ==
  <<MsgV("setInternalClock", f.masterClock \div 8)>>
  \o (IF Len(f.digidrums) > 0
      THEN <<[type |-> "loadDrumSamples", samples |-> f.digidrums]>> ELSE <<>>)

\* What load() posts after its stop(): YmReplayer.load, BaseReplayer.load
\* with onLoad, Pt3Replayer.load.
LoadMsgs(k, f) ==
  <<Msg("reset")>>
  \o (IF k = "pt3" THEN <<MsgV("setInternalClock", ZX_SPECTRUM_CLOCK \div 8)>>
      ELSE ConfigureYm(f))

\* What play() posts once ym.start() has returned: nothing in the core
\* YmReplayer, onPlay's re-configuration, Pt3Replayer's clock.
PlayMsgs(k, f) ==
  CASE k = "base" -> ConfigureYm(f)
    [] k = "pt3" -> <<MsgV("setInternalClock", ZX_SPECTRUM_CLOCK \div 8)>>
    [] OTHER -> <<>>

\* A pause that forgets to look at the state.
pauseAppliesAlways(st) == st \in {"stopped", "paused", "playing"}

\* if (this.state !== 'playing') return, negated
pauseApplies(st) == st = "playing"

\* Math.max(0, Math.min(frame, total - 1))
ClampFrame(frame, total) == Max(0, Min(frame, total - 1))

MaxPending == 24
MaxPt3Frame == 5

\* Frames a caller may ask seek() for.
SeekTargets == (0 - 1) .. 2

Init ==
  /\ sampleRate = 48000
  /\ workletNode = NoNode
  /\ workletReady = FALSE
  /\ pendingMessages = <<>>
  /\ moduleLoaded = FALSE
  /\ awaiting = <<0, 0>>
  /\ kind \in {"core", "base", "pt3"}
  /\ file = NoFile
  /\ player = NoPlayer
  /\ arg = NoArg
  /\ DriverConstructed
  /\ HistoryEmpty
  /\ UnitsIdle

\* What a replayer step leaves of the chip and of the per-step histories.
Drive(c, name, posted) ==
  /\ Len(c.pending) <= MaxPending
  /\ workletNode' = c.node
  /\ workletReady' = c.ready
  /\ pendingMessages' = c.pending
  /\ delivered' = c.out
  /\ sent' = posted
  /\ op' = name
  /\ UNCHANGED <<sampleRate, levels, unitVars, kind, portLog, drumReads, steps>>

\* stop() of the three replayers, as far as the replayer's own fields go.
Stopped ==
  /\ intervalId' = FALSE
  /\ timers' = IF intervalId THEN timers - 1 ELSE timers
  /\ currentFrame' = 0
  /\ state' = "stopped"
  /\ activeSid' = IF kind = "base" THEN NoSid ELSE activeSid
  /\ activeSyncBuzzer' = IF kind = "base" THEN FALSE ELSE activeSyncBuzzer

\* load(f): stop(), then reset and configure the chip for f.
Load ==
  /\ ~disposed
  /\ \E f \in FilesOf(kind) :
       LET msgs == Silence(kind) \o LoadMsgs(kind, f)
           c == PostAll(chipStop(PostAll(ChipNow, Silence(kind), sampleRate)),
                        LoadMsgs(kind, f), sampleRate)
       IN /\ Drive(c, "load", msgs)
          /\ file' = f
          /\ arg' = [file |-> f]
          /\ player' = IF kind = "pt3" THEN playerReset(f) ELSE player
  /\ intervalId' = FALSE
  /\ timers' = IF intervalId THEN timers - 1 ELSE timers
  /\ currentFrame' = 0
  /\ state' = "stopped"
  /\ activeSid' = IF kind = "pt3" THEN activeSid ELSE NoSid
  /\ activeSyncBuzzer' = IF kind = "pt3" THEN activeSyncBuzzer ELSE FALSE
  /\ firstSnap' = NoSnap
  /\ lastSnap' = NoSnap
  /\ fresh' = FALSE
  /\ UNCHANGED <<moduleLoaded, awaiting, disposed>>

\* play() without its "if (this.state === 'playing') return".
PlayFinishAlwaysRegisters(c, name, aw) ==
  LET msgs == PlayMsgs(kind, file)
  IN /\ Drive(PostAll(c, msgs, sampleRate), name, msgs)
     /\ awaiting' = aw
     /\ activeSid' = IF kind = "base" /\ state = "stopped" THEN NoSid ELSE activeSid
     /\ activeSyncBuzzer' =
          IF kind = "base" /\ state = "stopped" THEN FALSE ELSE activeSyncBuzzer
     /\ state' = "playing"
     /\ intervalId' = TRUE
     /\ timers' = timers + 1
     /\ fresh' = (fresh \/ state = "stopped")
     /\ arg' = NoArg
     /\ UNCHANGED <<file, currentFrame, player, disposed, firstSnap, lastSnap>>

\* play() from the return of ym.start() on; aw is awaiting without this call.
PlayFinish(c, name, aw) ==
  LET msgs == PlayMsgs(kind, file)
  IN /\ Drive(PostAll(c, msgs, sampleRate), name, msgs)
     /\ awaiting' = aw
     /\ activeSid' = IF kind = "base" /\ state = "stopped" THEN NoSid ELSE activeSid
     /\ activeSyncBuzzer' =
          IF kind = "base" /\ state = "stopped" THEN FALSE ELSE activeSyncBuzzer
     /\ IF state = "playing"
        THEN UNCHANGED <<state, intervalId, timers, fresh>>
        ELSE /\ state' = "playing"
             /\ intervalId' = TRUE
             /\ timers' = timers + 1
             /\ fresh' = (fresh \/ state = "stopped")
     /\ arg' = NoArg
     /\ UNCHANGED <<file, currentFrame, player, disposed, firstSnap, lastSnap>>

\* play() suspended inside ym.start().
PlaySuspend(c, name, aw) ==
  /\ Drive(c, name, <<>>)
  /\ awaiting' = aw
  /\ arg' = NoArg
  /\ UNCHANGED <<file, currentFrame, state, intervalId, timers, activeSid,
                 activeSyncBuzzer, player, disposed, snapVars>>

\* play() is called; the AudioContext is suspended or running.
PlayBegin ==
  /\ ~disposed
  /\ file # NoFile
  /\ awaiting[1] + awaiting[2] < MaxInflight
  /\ \E suspended \in BOOLEAN :
       LET r == start(ChipNow, suspended, moduleLoaded, sampleRate)
       IN IF r.stage = "done" THEN PlayFinish(r.chip, "play", awaiting)
          ELSE PlaySuspend(r.chip, "play", Suspend(awaiting, r.stage))
  /\ UNCHANGED moduleLoaded

\* audioContext.resume() resolves for a suspended play().
PlayResumed ==
  /\ awaiting[1] > 0
  /\ LET r == initWorklet(ChipNow, moduleLoaded, sampleRate)
         aw == <<awaiting[1] - 1, awaiting[2]>>
     IN IF r.stage = "done" THEN PlayFinish(r.chip, "resumed", aw)
        ELSE PlaySuspend(r.chip, "resumed", Suspend(aw, r.stage))
  /\ UNCHANGED moduleLoaded

\* audioWorklet.addModule() resolves for a suspended play().
PlayModuleAdded ==
  /\ awaiting[2] > 0
  /\ PlayFinish(CreateNode(ChipNow, sampleRate), "moduleAdded",
                <<awaiting[1], awaiting[2] - 1>>)
  /\ moduleLoaded' = TRUE

\* pause()
Pause ==
  /\ ~disposed
  /\ IF pauseApplies(state)
     THEN /\ Drive(PostAll(ChipNow, Silence(kind), sampleRate), "pause", Silence(kind))
          /\ intervalId' = FALSE
          /\ timers' = IF intervalId THEN timers - 1 ELSE timers
          /\ state' = "paused"
     ELSE /\ Drive(ChipNow, "pause", <<>>)
          /\ UNCHANGED <<intervalId, timers, state>>
  /\ arg' = NoArg
  /\ UNCHANGED <<moduleLoaded, awaiting, file, currentFrame, activeSid,
                 activeSyncBuzzer, player, disposed, snapVars>>

\* stop()
Stop ==
  /\ ~disposed
  /\ Drive(chipStop(PostAll(ChipNow, Silence(kind), sampleRate)), "stop", Silence(kind))
  /\ Stopped
  /\ player' = IF kind = "pt3" /\ player # NoPlayer THEN playerReset(file) ELSE player
  /\ arg' = NoArg
  /\ UNCHANGED <<moduleLoaded, awaiting, file, disposed, snapVars>>

\* dispose(): stop(), then ym.dispose()
Dispose ==
  /\ ~disposed
  /\ Drive(chipStop(chipStop(PostAll(ChipNow, Silence(kind), sampleRate))), "dispose",
           Silence(kind))
  /\ Stopped
  /\ player' = IF kind = "pt3" /\ player # NoPlayer THEN playerReset(file) ELSE player
  /\ disposed' = TRUE
  /\ arg' = NoArg
  /\ UNCHANGED <<moduleLoaded, awaiting, file, snapVars>>

\* seek(frame)
Seek ==
  /\ ~disposed
  /\ \E frame \in SeekTargets :
       /\ arg' = [target |-> frame]
       /\ IF file = NoFile
          THEN UNCHANGED <<currentFrame, activeSid, activeSyncBuzzer, player>>
          ELSE CASE kind = "core" ->
                      /\ currentFrame' = ClampFrame(frame, file.frameCount)
                      /\ UNCHANGED <<activeSid, activeSyncBuzzer, player>>
                 [] kind = "base" ->
                      /\ currentFrame' = ClampFrame(frame, file.frameCount)
                      /\ activeSid' = NoSid
                      /\ activeSyncBuzzer' = FALSE
                      /\ UNCHANGED player
                 [] OTHER ->
                      LET r == FastForward(playerReset(file), file, 0,
                                           ClampFrame(frame, estimateTotalFrames(file)))
                      IN /\ player' = r[1]
                         /\ currentFrame' = r[2]
                         /\ UNCHANGED <<activeSid, activeSyncBuzzer>>
  /\ Drive(ChipNow, "seek", <<>>)
  /\ UNCHANGED <<moduleLoaded, awaiting, file, state, intervalId, timers, disposed,
                 snapVars>>

\* What the worklet holds once a frame's messages have been handed to it.
Snapshot(c) ==
  IF c.node = NoNode THEN [clock |-> 0, drums |-> <<>>, writes |-> c.out]
  ELSE [clock |-> c.node.internalClock, drums |-> c.node.drumSamples, writes |-> c.out]

\* A tick of a YM replayer that applies frames[index] and leaves the cursor at next.
TickYm(index, next) ==
  LET frame == FrameAt(file, index)
      msgs == applyFrame(file.format, frame, Len(file.digidrums), activeSid,
                         activeSyncBuzzer)
      c == PostAll(ChipNow, msgs, sampleRate)
      first == fresh /\ index = 0 /\ ~disposed
  IN /\ Drive(c, "tick", msgs)
     /\ arg' = [frame |-> frame]
     /\ activeSid' = TrackedSid(file.format, frame, activeSid)
     /\ activeSyncBuzzer' = TrackedBuzzer(file.format, frame, activeSyncBuzzer)
     /\ currentFrame' = next
     /\ firstSnap' = IF first /\ firstSnap = NoSnap THEN Snapshot(c) ELSE firstSnap
     /\ lastSnap' = IF first THEN Snapshot(c) ELSE lastSnap
     /\ fresh' = FALSE
     /\ UNCHANGED player

\* A tick that throws on frames[cursor] being undefined; the cursor is left at cursor.
TickThrows(cursor) ==
  /\ Drive(ChipNow, "tick", <<>>)
  /\ arg' = NoArg
  /\ currentFrame' = cursor
  /\ fresh' = FALSE
  /\ UNCHANGED <<activeSid, activeSyncBuzzer, player, firstSnap, lastSnap>>

\* YmReplayer.tick of src/packages/core/src/replayer.ts
TickCore ==
  IF currentFrame >= file.frameCount THEN TickThrows(currentFrame)
  ELSE TickYm(currentFrame,
              IF currentFrame + 1 >= file.frameCount THEN file.loopFrame
              ELSE currentFrame + 1)

\* BaseReplayer.tick with YmReplayer.processFrame
TickBase ==
  LET index == IF currentFrame >= file.frameCount THEN file.loopFrame ELSE currentFrame
  IN IF index >= file.frameCount THEN TickThrows(index) ELSE TickYm(index, index + 1)

\* Pt3Replayer.tick
TickPt3 ==
  LET p0 == IF player.finished THEN playerReset(file) ELSE player
      p1 == playerTick(p0, file)
      msgs == applyRegisters(playerRegisters(p0, p1))
  IN /\ currentFrame < MaxPt3Frame
     /\ Drive(PostAll(ChipNow, msgs, sampleRate), "tick", msgs)
     /\ arg' = NoArg
     /\ player' = p1
     /\ currentFrame' = (IF player.finished THEN 0 ELSE currentFrame) + 1
     /\ fresh' = FALSE
     /\ UNCHANGED <<activeSid, activeSyncBuzzer, firstSnap, lastSnap>>

\* A registered interval timer fires.
Tick ==
  /\ timers > 0
  /\ CASE kind = "core" -> TickCore
       [] kind = "base" -> TickBase
       [] OTHER -> TickPt3
  /\ UNCHANGED <<moduleLoaded, awaiting, file, state, intervalId, timers, disposed>>

Next ==
  \/ Load
  \/ PlayBegin
  \/ PlayResumed
  \/ PlayModuleAdded
  \/ Pause
  \/ Stop
  \/ Seek
  \/ Tick
  \/ Dispose

Spec == Init /\ [][Next]_vars

YmKinds == {"core", "base"}

\* C1: with a YM file loaded, the frame cursor satisfies
\* 0 <= currentFrame < frameCount wherever it can be observed.
C1_CursorInRange ==
  (kind \in YmKinds /\ file # NoFile) => currentFrame \in 0 .. (file.frameCount - 1)

\* C2: when the first frame after a play() from 'stopped' has been applied,
\* the worklet holds the same internal clock, the same DigiDrum samples and
\* the same frame-0 writes in the same order as it held when the first frame
\* after the initial play() had been applied.
C2_StopPlayReproducesFirstFrame ==
  (kind \in YmKinds /\ lastSnap # NoSnap) =>
    /\ lastSnap.clock = firstSnap.clock
    /\ Len(lastSnap.drums) = Len(firstSnap.drums)
    /\ \A i \in 1 .. Len(lastSnap.drums) : lastSnap.drums[i] = firstSnap.drums[i]
    /\ lastSnap.writes = firstSnap.writes

\* C5: after a frame that does not request a SID voice on a channel (or the
\* Sync Buzzer) has been applied, that effect is not active on the chip,
\* whatever operations lay between that frame and the one that started it.
C5_EffectStoppedWhenNotRequested ==
  (kind \in YmKinds /\ op = "tick" /\ sent # <<>> /\ workletNode # NoNode /\ ~disposed) =>
    LET effects == DecodedEffects(file.format, arg.frame)
    IN /\ \A ch \in Channels :
            workletNode.sidVoices[ch].active => sidActiveThisFrame(effects)[ch]
       /\ workletNode.syncBuzzerEnabled => syncBuzzerActiveThisFrame(effects)

\* C7: once dispose() has been called, no frame tick runs and no posted
\* message is handed to a worklet node.
C7_NothingAfterDispose ==
  (disposed /\ op # "dispose") => (op # "tick" /\ Posted(delivered) = <<>>)

\* C9: pause() in state 'playing' cancels the frame timer, posts a volume-0
\* write for each of the three channels, sets the state to 'paused' and
\* leaves the frame cursor and the PT3 player as they were; pause() in any
\* other state changes nothing and posts nothing.
C9_PauseEffect ==
  [][op' = "pause" =>
       IF state = "playing"
       THEN /\ ~intervalId'
            /\ timers' = 0
            /\ state' = "paused"
            /\ currentFrame' = currentFrame
            /\ player' = player
            /\ \A ch \in Channels :
                 \E i \in 1 .. Len(sent') : sent'[i] = MsgCV("setVolume", ch, 0)
       ELSE /\ sent' = <<>>
            /\ delivered' = <<>>
            /\ UNCHANGED <<state, currentFrame, player, intervalId, timers, file,
                           activeSid, activeSyncBuzzer, workletNode, workletReady,
                           pendingMessages>>]_vars

\* C9 witness: a replayer that had played at least one frame was paused.
C9_Witness ==
  /\ op = "pause"
  /\ state = "paused"
  /\ currentFrame > 0
  /\ sent = Silence(kind)
  /\ timers = 0

\* C10: after stop() the state is 'stopped', no frame timer is registered,
\* currentFrame is 0 and the player state is reset: the YM effect tracking is
\* cleared, the PT3 player is at position 0 and not finished.
C10_StopResets ==
  op = "stop" =>
    /\ state = "stopped"
    /\ ~intervalId
    /\ timers = 0
    /\ currentFrame = 0
    /\ kind \in YmKinds => (activeSid = NoSid /\ ~activeSyncBuzzer)
    /\ (kind = "pt3" /\ player # NoPlayer) =>
         (player.currentPosition = 0 /\ ~player.finished)


---------------------------------------------------------------------------
(* SpecGen: the generator classes on their own.  kind says which class is  *)
(* exercised: the worklet's tone, noise or envelope generator (inside one  *)
(* processor, written through handleMessage and ticked by tick()), or the  *)
(* batch EnvelopeGenerator of src/packages/core/src/envelope.ts.           *)

MaxNoiseTicks == 60

GenKinds == {"tone", "noise", "envelope", "batch"}

\* Period values a register write may carry.
GenPeriods == {0 - 1, 0, 1, 3}

\* Shape values written to R13.
GenShapes == 0 .. 15 \cup {29}

\* Tick counts handed to the batch generator (5000 is one 50 Hz frame).
GenTickCounts == {0, 1, 2, 63, 64, 127, 128, 5000}

\* EnvelopeGenerator.setPeriod (batch)
BatchSetPeriod(e, period) == [e EXCEPT !.period = Max(1, period)]

\* EnvelopeGenerator.setShape (batch)
BatchSetShape(e, shape) == [e EXCEPT !.position = 0 - 64, !.counter = 0, !.lastShape = shape]

\* EnvelopeGenerator.tick(ticks) (batch)
BatchTick(e, ticks) ==
  IF e.period = 0 THEN e
  ELSE LET c == e.counter + ticks
           n == c \div e.period
           pos == e.position + n
       IN [e EXCEPT !.counter = c % e.period,
                    !.position = IF n > 0 /\ pos > 63 THEN (pos - 64) % 64
                                 ELSE IF n > 0 THEN pos ELSE e.position]

\* EnvelopeGenerator.reset (batch)
BatchReset(e) == [e EXCEPT !.counter = 0, !.position = 0 - 64, !.lastShape = 0 - 1]

\* The messages that write the exercised generator's registers.
GenMessages(k) ==
  {Msg("reset")} \cup
  CASE k = "tone" -> {MsgCV("setTonePeriod", ch, v) : ch \in Channels, v \in GenPeriods}
    [] k = "noise" -> {MsgV("setNoisePeriod", v) : v \in GenPeriods}
    [] k = "envelope" -> {MsgV("setEnvelopePeriod", v) : v \in GenPeriods} \cup
                         {MsgV("setEnvelopeShape", v) : v \in GenShapes}
    [] OTHER -> {}

genFrame == <<sampleRate, workletReady, pendingMessages, moduleLoaded, awaiting,
              drvVars, snapVars, sent, delivered, drumReads, portLog, levels>>

InitGen ==
  /\ sampleRate = 48000
  /\ workletNode = NewProcessor
  /\ workletReady = TRUE
  /\ pendingMessages = <<>>
  /\ moduleLoaded = TRUE
  /\ awaiting = <<0, 0>>
  /\ kind \in GenKinds
  /\ file = NoFile
  /\ player = NoPlayer
  /\ arg = NoArg
  /\ DriverConstructed
  /\ HistoryEmpty
  /\ UnitsIdle

\* port.onmessage: a register write or a reset reaches the processor.
GenMessage ==
  /\ kind # "batch"
  /\ \E msg \in GenMessages(kind) :
       /\ workletNode' = handleMessage(workletNode, msg, sampleRate)
       /\ arg' = [msg |-> msg]
  /\ op' = "message"
  /\ UNCHANGED <<genFrame, steps, unitVars>>

\* One tick() of the exercised worklet generator.
GenTick ==
  /\ kind # "batch"
  /\ kind = "noise" => steps < MaxNoiseTicks
  /\ workletNode' =
       CASE kind = "tone" ->
              [workletNode EXCEPT !.tones = [ch \in Channels |-> ToneTick(workletNode.tones[ch])]]
         [] kind = "noise" -> [workletNode EXCEPT !.noise = NoiseTick(@)]
         [] OTHER -> [workletNode EXCEPT !.envelope = EnvTick(@)]
  /\ steps' = IF kind = "noise" THEN steps + 1 ELSE steps
  /\ op' = "tick"
  /\ arg' = NoArg
  /\ UNCHANGED <<genFrame, unitVars>>

\* envelope.trigger(), as the Sync Buzzer calls it.
GenTrigger ==
  /\ kind = "envelope"
  /\ workletNode' = [workletNode EXCEPT !.envelope = EnvTrigger(@)]
  /\ op' = "trigger"
  /\ arg' = NoArg
  /\ UNCHANGED <<genFrame, steps, unitVars>>

GenBatchSetPeriod ==
  /\ kind = "batch"
  /\ \E v \in GenPeriods :
       /\ envGen' = BatchSetPeriod(envGen, v)
       /\ arg' = [value |-> v]
  /\ op' = "batchSetPeriod"
  /\ UNCHANGED <<genFrame, steps, workletNode, input, parsed, pt3, ticker, nodes>>

GenBatchSetShape ==
  /\ kind = "batch"
  /\ \E v \in GenShapes :
       /\ envGen' = BatchSetShape(envGen, v)
       /\ arg' = [value |-> v]
  /\ op' = "batchSetShape"
  /\ UNCHANGED <<genFrame, steps, workletNode, input, parsed, pt3, ticker, nodes>>

GenBatchTick ==
  /\ kind = "batch"
  /\ \E n \in GenTickCounts :
       /\ envGen' = BatchTick(envGen, n)
       /\ arg' = [ticks |-> n]
  /\ op' = "batchTick"
  /\ UNCHANGED <<genFrame, steps, workletNode, input, parsed, pt3, ticker, nodes>>

GenBatchReset ==
  /\ kind = "batch"
  /\ envGen' = BatchReset(envGen)
  /\ arg' = NoArg
  /\ op' = "batchReset"
  /\ UNCHANGED <<genFrame, steps, workletNode, input, parsed, pt3, ticker, nodes>>

NextGen ==
  \/ GenMessage
  \/ GenTick
  \/ GenTrigger
  \/ GenBatchSetPeriod
  \/ GenBatchSetShape
  \/ GenBatchTick
  \/ GenBatchReset

SpecGen == InitGen /\ [][NextGen]_vars

\* C11: from construction or a 'reset', under any number of noise ticks and
\* any setNoisePeriod writes, the 17-bit LFSR is never 0.
C11_LfsrNeverZero == workletNode.noise.lfsr \in 1 .. 131071

\* After a period write the LFSR has shifted 18 times: the start bit has left
\* at bit 0 and the feedback has entered at bit 16 twice (0x14000).
C11_Witness ==
  /\ kind = "noise"
  /\ op = "tick"
  /\ workletNode.noise.period = 1
  /\ workletNode.noise.lfsr = 81920

\* C12: after any setShape, trigger, setPeriod and tick operations the
\* position of the worklet envelope generator and of the batch generator is
\* in [-64, 63], so position + 64 indexes inside the 128 entries of the shape
\* that dataOffset selects.
C12_EnvelopePositionInRange ==
  /\ workletNode.envelope.position \in (0 - 64) .. 63
  /\ workletNode.envelope.dataOffset \in {128 * i : i \in 0 .. 9}
  /\ envGen.position \in (0 - 64) .. 63

\* A frame's worth of ticks has taken the batch generator round the sustain
\* range after a shape write.
C12_Witness ==
  /\ kind = "batch"
  /\ op = "batchTick"
  /\ arg = [ticks |-> 5000]
  /\ envGen.lastShape = 14
  /\ envGen.period = 3
  /\ envGen.position \in 0 .. 62

\* C13: after any period write (0 and negative values included) and after
\* 'reset', every tone period, the noise period and the envelope period are
\* at least 1.
C13_PeriodsAtLeastOne ==
  /\ \A ch \in Channels : workletNode.tones[ch].period >= 1
  /\ workletNode.noise.period >= 1
  /\ workletNode.envelope.period >= 1

\* A noise period write carrying 0 has been handled.
C13_Witness ==
  /\ op = "message"
  /\ arg = [msg |-> MsgV("setNoisePeriod", 0)]
  /\ workletNode.noise.period = 1
  /\ workletNode.noise.counter > 0

\* C14: in every output sample, a channel whose AND gate is open indexes
\* VOLUME_TABLE with a level in [0, 31]: the envelope level if useEnvelope,
\* otherwise twice the fixed volume, which an active SID voice may have
\* overwritten.
C14_LevelIndexInRange ==
  op = "sample" => \A ch \in Channels : levels[ch].gate => levels[ch].level \in 0 .. 31

\* A sample in which one open channel takes its level from the envelope and
\* another from a sinus SID voice at its full volume.
C14_Witness ==
  /\ op = "sample"
  /\ levels[1].gate /\ workletNode.useEnvelope[1] /\ levels[1].level > 0
  /\ levels[2].gate /\ workletNode.sidVoices[2].active /\ levels[2].level = 4

---------------------------------------------------------------------------
(* The PT3 parser: parsePt3File and the functions below it in              *)
(* src/packages/core/src/pt3/replayer.ts.  A Uint8Array is a record of its *)
(* length, the offset of its first byte in the underlying bytes (a view    *)
(* made by parsePt3Module starts at the module's offset) and the bytes     *)
(* themselves, given as patches <<offset, bytes>> over zeros; a later      *)
(* patch overrides an earlier one.                                         *)

PT3_MIN_SIZE == 202

\* data[i], for 0 <= i < data.length
Byte(d, i) ==
  LET at == d.base + i
      hits == {k \in 1 .. Len(d.patches) :
                 at \in d.patches[k][1] .. (d.patches[k][1] + Len(d.patches[k][2]) - 1)}
      k == CHOOSE h \in hits : \A g \in hits : g <= h
  IN IF hits = {} THEN 0 ELSE d.patches[k][2][at - d.patches[k][1] + 1]

\* view.getUint16(offset, true)
Uint16(d, offset) == Byte(d, offset) + 256 * Byte(d, offset + 1)

\* new Uint8Array(data.buffer, data.byteOffset + offset, length)
Subarray(d, offset, length) == [d EXCEPT !.base = d.base + offset, !.len = length]

\* The position list loop of parsePt3Module: bytes from 0xC9 up to a 0xFF,
\* the end of the data or 256 entries.
RECURSIVE ReadPositions(_, _, _)
ReadPositions(d, posOffset, positionList) ==
  IF posOffset < d.len /\ Byte(d, posOffset) # 255 /\ Len(positionList) < 256
  THEN ReadPositions(d, posOffset + 1, Append(positionList, Byte(d, posOffset)))
  ELSE positionList

\* extractPatternChannel: the channel's bytes are data[pointer ..] up to 2048
\* bytes, or the single byte 0 for a pointer past the end (start -1).
extractPatternChannel(d, pointer) ==
  IF pointer >= d.len THEN [start |-> 0 - 1, length |-> 1]
  ELSE [start |-> pointer, length |-> Min(2048, d.len - pointer)]

\* parsePatterns
parsePatterns(d, patternsPointer, positionList) ==
  LET nums == {positionList[i] \div 3 : i \in 1 .. Len(positionList)}
      maxPattern == IF nums = {} THEN 0 ELSE CHOOSE m \in nums : \A n \in nums : n <= m
      pattern(patNum) ==
        LET patternOffset == patternsPointer + patNum * 6
        IN IF patternOffset + 6 > d.len
           THEN [channelA |-> [start |-> 0 - 1, length |-> 1],
                 channelB |-> [start |-> 0 - 1, length |-> 1],
                 channelC |-> [start |-> 0 - 1, length |-> 1]]
           ELSE [channelA |-> extractPatternChannel(d, Uint16(d, patternOffset)),
                 channelB |-> extractPatternChannel(d, Uint16(d, patternOffset + 2)),
                 channelC |-> extractPatternChannel(d, Uint16(d, patternOffset + 4))]
  IN [i \in 1 .. (maxPattern + 1) |-> pattern(i - 1)]

\* createEmptySampleFrame
createEmptySampleFrame ==
  [amplitude |-> 0, toneOffset |-> 0, accumulateTone |-> FALSE, accumulateNoise |-> FALSE,
   toneMask |-> TRUE, noiseMask |-> TRUE, noiseOffset |-> 0, envelopeMask |-> FALSE,
   amplitudeSlide |-> 0, amplitudeSlideEnabled |-> FALSE, envelopeOffset |-> 0]

\* Pt3SampleFrame from the four bytes b0, b1, lo, hi of a frame
SampleFrame(b0, b1, lo, hi) ==
  LET raw == (b0 \div 2) % 32
      slide == (b0 \div 2) % 16
  IN [amplitude |-> b1 % 16,
      toneOffset |-> IF lo + 256 * hi > 32767 THEN lo + 256 * hi - 65536 ELSE lo + 256 * hi,
      accumulateTone |-> (b1 \div 64) % 2 = 1,
      accumulateNoise |-> (b1 \div 32) % 2 = 1,
      toneMask |-> (b1 \div 16) % 2 = 1,
      noiseMask |-> (b1 \div 128) % 2 = 1,
      noiseOffset |-> IF raw >= 16 THEN raw - 32 ELSE raw,
      envelopeMask |-> b0 % 2 = 1,
      amplitudeSlide |-> IF (b0 \div 64) % 2 = 1 THEN slide ELSE 0 - slide,
      amplitudeSlideEnabled |-> (b0 \div 128) % 2 = 1,
      envelopeOffset |-> raw]

\* parseSampleFrame
parseSampleFrame(d, offset) ==
  SampleFrame(Byte(d, offset), Byte(d, offset + 1), Byte(d, offset + 2), Byte(d, offset + 3))

\* parseSamples, one of the 32 samples
parseSample(d, pointer) ==
  LET empty == [loopPosition |-> 0, length |-> 1, frames |-> <<createEmptySampleFrame>>]
      length == Byte(d, pointer + 1)
      fits == {f \in 0 .. (length - 1) : pointer + 2 + f * 4 + 3 < d.len}
      frames == [f \in 1 .. Cardinality(fits) |-> parseSampleFrame(d, pointer + 2 + (f - 1) * 4)]
  IN IF pointer = 0 \/ pointer >= d.len - 2 THEN empty
     ELSE IF length = 0 THEN empty
     ELSE IF frames = <<>> THEN empty
     ELSE [loopPosition |-> Min(Byte(d, pointer), Len(frames) - 1),
           length |-> Len(frames), frames |-> frames]

\* parseOrnaments, one of the 16 ornaments (an Int8Array is zero where the
\* loop did not write)
parseOrnament(d, pointer) ==
  LET empty == [loopPosition |-> 0, length |-> 1, offsets |-> <<0>>]
      length == Byte(d, pointer + 1)
      signed(val) == IF val > 127 THEN val - 256 ELSE val
  IN IF pointer = 0 \/ pointer >= d.len - 2 THEN empty
     ELSE IF length = 0 THEN empty
     ELSE [loopPosition |-> Min(Byte(d, pointer), length - 1),
           length |-> length,
           offsets |-> [o \in 1 .. length |->
                          IF pointer + 2 + (o - 1) < d.len
                          THEN signed(Byte(d, pointer + 2 + (o - 1))) ELSE 0]]

\* parseHeaderString: the version a header names.  The header is matched at
\* its start, where the trackers write "ProTracker 3.x"; any other header
\* leaves version 6.
parseHeaderVersion(d) ==
  LET prefix == <<80, 114, 111, 84, 114, 97, 99, 107, 101, 114, 32, 51, 46>>
      minor == Byte(d, 13) - 48
  IN IF (\A i \in 1 .. 13 : Byte(d, i - 1) = prefix[i]) /\ minor \in 0 .. 9
     THEN (IF minor <= 3 THEN 3 ELSE IF minor = 4 THEN 4 ELSE IF minor = 5 THEN 5 ELSE 6)
     ELSE 6

\* parsePatterns sized by the first position only.
parsePatternsOfFirstPosition(d, patternsPointer, positionList) ==
  parsePatterns(d, patternsPointer,
                IF positionList = <<>> THEN <<>> ELSE <<Head(positionList)>>)

\* The patterns of a module, as parsePt3Module asks for them.
modulePatterns(d, patternsPointer, positionList) ==
  parsePatterns(d, patternsPointer, positionList)

\* parsePt3Module on the bytes of one module: throws below PT3_MIN_SIZE.
parsePt3Module(d) ==
  IF d.len < PT3_MIN_SIZE THEN [ok |-> FALSE, error |-> "PT3 module too small"]
  ELSE LET positionList == ReadPositions(d, 201, <<>>)
       IN [ok |-> TRUE,
           file |-> [type |-> "pt3",
                     version |-> parseHeaderVersion(d),
                     toneTableId |-> Byte(d, 99) % 4,
                     delay |-> Byte(d, 100),
                     loopPosition |-> Byte(d, 102),
                     numberOfPositions |-> Len(positionList),
                     samples |-> [i \in 1 .. 32 |-> parseSample(d, Uint16(d, 105 + (i - 1) * 2))],
                     ornaments |-> [i \in 1 .. 16 |->
                                      parseOrnament(d, Uint16(d, 169 + (i - 1) * 2))],
                     patterns |-> modulePatterns(d, Uint16(d, 103), positionList),
                     positionList |-> positionList,
                     isTurboSound |-> FALSE,
                     secondModule |-> <<>>]]

\* findSecondModuleOffset: the first offset from 256 on where "Vortex" or
\* "ProTr" stands, or -1.
findSecondModuleOffset(d) ==
  LET vortex == <<86, 111, 114, 116, 101, 120>>
      protr == <<80, 114, 111, 84, 114>>
      at(i, sig) == \A k \in 1 .. Len(sig) : Byte(d, i + k - 1) = sig[k]
      hits == {i \in 256 .. (d.len - PT3_MIN_SIZE - 1) : at(i, vortex) \/ at(i, protr)}
  IN IF hits = {} THEN 0 - 1 ELSE CHOOSE i \in hits : \A j \in hits : i <= j

\* parsePt3File
parsePt3File(d) ==
  IF d.len < PT3_MIN_SIZE THEN [ok |-> FALSE, error |-> "PT3 file too small"]
  ELSE LET off == findSecondModuleOffset(d)
           first == parsePt3Module(Subarray(d, 0, off))
           second == parsePt3Module(Subarray(d, off, d.len - off))
       IN IF off > 0
          THEN (IF ~first.ok THEN first
                ELSE IF ~second.ok THEN second
                ELSE [ok |-> TRUE,
                      file |-> [first.file EXCEPT !.isTurboSound = TRUE,
                                                  !.secondModule = <<second.file>>]])
          ELSE parsePt3Module(d)

\* The bytes of a PT3 module of the given length: header count byte, loop
\* position, patterns pointer, the position list followed by 0xFF, ornament
\* 1's pointer and the ornament's bytes.
Pt3Bytes(len, count, patternsPointer, positions, ornamentPointer, ornament) ==
  [len |-> len, base |-> 0,
   patches |-> <<<<100, <<3, count, 0, patternsPointer % 256, patternsPointer \div 256>>>>,
                 <<171, <<ornamentPointer % 256, ornamentPointer \div 256>>>>,
                 <<201, positions \o <<255>>>>,
                 <<210, <<240, 0, 240, 0, 240, 0, 0, 0, 208, 0>>>>,
                 <<ornamentPointer, ornament>>,
                 <<240, <<208, 0>>>>>>]

\* Two modules one after the other, the second announced by "Vortex".
TurboBytes(first, second) ==
  [len |-> 300 + second.len, base |-> 0,
   patches |-> first.patches \o
               [k \in 1 .. Len(second.patches) |->
                  <<second.patches[k][1] + 300, second.patches[k][2]>>] \o
               <<<<300, <<86, 111, 114, 116, 101, 120>>>>>>]

Pt3Lengths == {200, 201, 202, 203, 250}

Pt3PositionLists == {<<>>, <<0>>, <<0, 3>>, <<7, 0>>}

Pt3Ornaments == {<<5, 2, 1, 255>>, <<1, 3, 0, 12, 244>>, <<0, 0>>}

Pt3Inputs ==
  {Pt3Bytes(len, count, pp, positions, op0, orn) :
     len \in Pt3Lengths, count \in {1, 2}, pp \in {210, 4000},
     positions \in Pt3PositionLists, op0 \in {0, 220, 249, 300}, orn \in Pt3Ornaments}
  \cup {TurboBytes(Pt3Bytes(300, 2, 210, <<0, 3>>, 220, <<1, 3, 0, 12, 244>>),
                   Pt3Bytes(250, 2, 210, <<0, 3>>, 220, <<1, 3, 0, 12, 244>>))}

---------------------------------------------------------------------------
(* SpecPt3Parse: parsePt3File applied to one input.                        *)

parseFrame == <<sampleRate, chipVars, drvVars, snapVars, sent, delivered, drumReads,
                portLog, steps, levels, envGen, pt3, ticker, nodes, arg>>

InitPt3Parse ==
  /\ sampleRate = 48000
  /\ workletNode = NoNode
  /\ workletReady = FALSE
  /\ pendingMessages = <<>>
  /\ moduleLoaded = FALSE
  /\ awaiting = <<0, 0>>
  /\ kind = "pt3"
  /\ file = NoFile
  /\ player = NoPlayer
  /\ arg = NoArg
  /\ DriverConstructed
  /\ HistoryEmpty
  /\ envGen = NewBatchEnvelope
  /\ ticker = NoTicker
  /\ nodes = NoNodes
  /\ input \in Pt3Inputs
  /\ parsed = NotParsed
  /\ pt3 = NoPt3

ParsePt3 ==
  /\ op = "init"
  /\ parsed' = parsePt3File(input)
  /\ op' = "parse"
  /\ UNCHANGED <<parseFrame, input>>

NextPt3Parse == ParsePt3

SpecPt3Parse == InitPt3Parse /\ [][NextPt3Parse]_vars

\* A module as the parser returns it keeps numberOfPositions equal to the
\* length of its position list and has a pattern for every position.
ModulePositionsOk(f) ==
  /\ f.numberOfPositions = Len(f.positionList)
  /\ \A i \in 1 .. Len(f.positionList) : f.positionList[i] \div 3 < Len(f.patterns)

\* C15: for every PT3 module the parser returns (a TurboSound file's second
\* module included), numberOfPositions equals the length of positionList and
\* every position value divided by 3 is below the number of parsed patterns.
C15_PositionsHavePatterns ==
  (op = "parse" /\ parsed.ok) =>
    /\ ModulePositionsOk(parsed.file)
    /\ \A i \in 1 .. Len(parsed.file.secondModule) :
         ModulePositionsOk(parsed.file.secondModule[i])

\* A module whose header count differs from its position list and whose
\* largest pattern number comes from a later position has been parsed.
C15_Witness ==
  /\ op = "parse"
  /\ parsed.ok
  /\ Byte(input, 101) # Len(parsed.file.positionList)
  /\ parsed.file.positionList = <<0, 3>>
  /\ Len(parsed.file.patterns) = 2

\* Some ornament of the input has a loop position above its length.
OrnamentLoopPastLength(d) ==
  \E i \in 0 .. 15 :
    LET pointer == Uint16(d, 169 + i * 2)
    IN /\ pointer # 0
       /\ pointer < d.len - 2
       /\ Byte(d, pointer + 1) # 0
       /\ Byte(d, pointer) > Byte(d, pointer + 1)

\* Some pointer of the header reaches past the end of the input.
PointerPastEnd(d) ==
  \/ Uint16(d, 103) + 6 > d.len
  \/ \E i \in 0 .. 31 : Uint16(d, 105 + i * 2) >= d.len
  \/ \E i \in 0 .. 15 : Uint16(d, 169 + i * 2) >= d.len

\* C20: the PT3 parser fails on a file shorter than 201 bytes, on a header
\* pointer that reaches past the end and on an ornament whose loop position
\* is above its length, and accepts any other file of 201 bytes or more.
C20_Pt3ParserErrors ==
  op = "parse" =>
    (parsed.ok <=> (input.len >= 201 /\ ~PointerPastEnd(input) /\ ~OrnamentLoopPastLength(input)))

---------------------------------------------------------------------------
(* The YM file parser (ym/parser.ts).                                      *)

ATTR_INTERLEAVED == 1

ATTR_DRUM_4BIT == 4

DEFAULT_MASTER_CLOCK == 2000000

DEFAULT_FRAME_RATE == 50

MAX_FRAME_COUNT == 100000

DIGIDRUM_4BIT_TABLE == <<0, 1, 2, 2, 4, 6, 9, 12, 17, 24, 35, 48, 72, 103, 165, 255>>

\* String.fromCharCode(data[i]): the character code, 0 for a byte past the end
CharCode(d, i) == IF i >= 0 /\ i < d.len THEN Byte(d, i) ELSE 0

\* view.getUint16(offset, false) and view.getUint32(offset, false), which
\* throw a RangeError unless ViewHolds
ViewHolds(d, offset, size) == offset >= 0 /\ offset + size <= d.len

Uint16BE(d, offset) == Byte(d, offset) * 256 + Byte(d, offset + 1)

Uint32BE(d, offset) == Uint16BE(d, offset) * 65536 + Uint16BE(d, offset + 2)

\* data.slice(start, end), as a view of the bytes it copies
Slice(d, begin, finish) ==
  LET clamp(x) == IF x < 0 THEN Max(0, d.len + x) ELSE Min(x, d.len)
      from == clamp(begin)
      to == clamp(finish)
  IN Subarray(d, from, Max(0, to - from))

\* the bytes of a view as a sequence
BytesOf(d) == [i \in 1 .. d.len |-> Byte(d, i - 1)]

\* decode4BitDigidrum
decode4BitDigidrum(bytes) == [i \in 1 .. Len(bytes) |-> DIGIDRUM_4BIT_TABLE[(bytes[i] % 16) + 1]]

YmError(text) == [ok |-> FALSE, error |-> text]

\* The frames array: frames.length and the view the registers are read from;
\* frame f holds register r at bytes[r * count + f] when interleaved and at
\* bytes[f * 16 + r] otherwise.
YmFrames(frameCount, registers, interleaved, bytes) ==
  [length |-> Max(0, frameCount), registers |-> registers,
   interleaved |-> interleaved, bytes |-> bytes]

\* frameCount > 100000
frameCountExceedsLimit(frameCount) == frameCount > MAX_FRAME_COUNT

\* parseYm2Ym3
parseYm2Ym3(d, format) ==
  LET headerSize == 4
      dataSize == IF format = "YM3b" THEN d.len - headerSize - 4 ELSE d.len - headerSize
      frameCount == dataSize \div 14
  IN IF format = "YM3b" /\ ~ViewHolds(d, d.len - 4, 4) THEN YmError("RangeError")
     ELSE IF frameCount = 0 THEN YmError("YM file has zero frames")
     ELSE IF frameCountExceedsLimit(frameCount) THEN YmError("YM frame count exceeds limit")
     ELSE [ok |-> TRUE,
           file |-> [header |-> [format |-> format,
                                 frameCount |-> frameCount,
                                 attributes |-> ATTR_INTERLEAVED,
                                 digidrumCount |-> 0,
                                 masterClock |-> DEFAULT_MASTER_CLOCK,
                                 frameRate |-> DEFAULT_FRAME_RATE,
                                 loopFrame |-> IF format = "YM3b"
                                               THEN Uint32BE(d, d.len - 4) ELSE 0,
                                 extraDataSize |-> 0],
                     metadata |-> [songName |-> <<>>, author |-> <<>>, comment |-> format],
                     frames |-> YmFrames(frameCount, 14, TRUE,
                                         Slice(d, headerSize, headerSize + frameCount * 14)),
                     digidrums |-> <<>>]]

\* parseYm5Ym6, the digidrum loop from sample i on
RECURSIVE parseDigidrums(_, _, _, _, _, _)
parseDigidrums(d, offset, i, count, is4BitPacked, digidrums) ==
  IF i >= count THEN [ok |-> TRUE, offset |-> offset, digidrums |-> digidrums]
  ELSE IF offset + 4 > d.len THEN YmError("Incomplete digidrum sample size field")
  ELSE LET sampleSize == Uint32BE(d, offset)
           rawSample == BytesOf(Slice(d, offset + 4, offset + 4 + sampleSize))
       IN IF offset + 4 + sampleSize > d.len THEN YmError("Incomplete digidrum sample data")
          ELSE parseDigidrums(d, offset + 4 + sampleSize, i + 1, count, is4BitPacked,
                              Append(digidrums, IF is4BitPacked
                                                THEN decode4BitDigidrum(rawSample)
                                                ELSE rawSample))

\* parseNullString: the string at offset and the offset after its terminator
parseNullString(d, offset) ==
  LET stop == CHOOSE e \in offset .. Max(offset, d.len) :
                /\ e >= d.len \/ Byte(d, e) = 0
                /\ \A j \in offset .. (e - 1) : j < d.len /\ Byte(d, j) # 0
  IN [str |-> [k \in 1 .. (stop - offset) |-> Byte(d, offset + k - 1)], offset |-> stop + 1]

\* parseYm5Ym6
parseYm5Ym6(d, format) ==
  LET leonard == <<76, 101, 79, 110, 65, 114, 68, 33>>
      signature == BytesOf(Slice(d, 4, 12))
      frameCount == Uint32BE(d, 12)
      attributes == Uint32BE(d, 16)
      digidrumCount == Uint16BE(d, 20)
      extraDataSize == Uint16BE(d, 32)
      drums == parseDigidrums(d, 34 + extraDataSize, 0, digidrumCount,
                              (attributes \div ATTR_DRUM_4BIT) % 2 = 1, <<>>)
      songName == parseNullString(d, drums.offset)
      author == parseNullString(d, songName.offset)
      comment == parseNullString(d, author.offset)
      offset == comment.offset
      isInterleaved == attributes % 2 = 1
      registerDataSize == frameCount * 16
  IN IF signature # leonard THEN YmError("Invalid YM signature")
     ELSE IF ~ViewHolds(d, 12, 22) THEN YmError("RangeError")
     ELSE IF frameCount = 0 THEN YmError("YM file has zero frames")
     ELSE IF frameCountExceedsLimit(frameCount) THEN YmError("YM frame count exceeds limit")
     ELSE IF ~drums.ok THEN drums
     ELSE IF offset + registerDataSize > d.len THEN YmError("Not enough data for register frames")
     ELSE [ok |-> TRUE,
           file |-> [header |-> [format |-> format,
                                 frameCount |-> frameCount,
                                 attributes |-> attributes,
                                 digidrumCount |-> digidrumCount,
                                 masterClock |-> Uint32BE(d, 22),
                                 frameRate |-> Uint16BE(d, 26),
                                 loopFrame |-> Uint32BE(d, 28),
                                 extraDataSize |-> extraDataSize],
                     metadata |-> [songName |-> songName.str, author |-> author.str,
                                   comment |-> comment.str],
                     frames |-> YmFrames(frameCount, 16, isInterleaved,
                                         Slice(d, offset, offset + registerDataSize)),
                     digidrums |-> drums.digidrums]]

\* parseYmFile
parseYmFile(d) ==
  LET magic == <<CharCode(d, 0), CharCode(d, 1), CharCode(d, 2), CharCode(d, 3)>>
  IN IF magic = <<89, 77, 50, 33>> THEN parseYm2Ym3(d, "YM2")
     ELSE IF magic = <<89, 77, 51, 33>> THEN parseYm2Ym3(d, "YM3")
     ELSE IF magic = <<89, 77, 51, 98>> THEN parseYm2Ym3(d, "YM3b")
     ELSE IF magic = <<89, 77, 53, 33>> THEN parseYm5Ym6(d, "YM5")
     ELSE IF magic = <<89, 77, 54, 33>> THEN parseYm5Ym6(d, "YM6")
     ELSE YmError("Invalid YM magic number")

\* A 32-bit and a 16-bit number as big-endian bytes
BE32(x) == <<x \div 16777216, (x \div 65536) % 256, (x \div 256) % 256, x % 256>>

BE16(x) == <<x \div 256, x % 256>>

RECURSIVE DrumTable(_)
DrumTable(sizes) ==
  IF sizes = <<>> THEN <<>>
  ELSE BE32(Head(sizes)) \o [i \in 1 .. Head(sizes) |-> 28 + i] \o DrumTable(Tail(sizes))

\* A YM5/YM6 file cut to len bytes: magic, signature, header, digidrum
\* table, the strings "a", "" and "c", the register data and "End!".
\* fields is the number of bytes up to the end of the register data.
Ym5Bytes(magic, signature, frameCount, attributes, sizes, cut) ==
  LET table == DrumTable(sizes)
      strings == 34 + Len(table)
      registers == strings + 5
      fields == registers + frameCount * 16
  IN [len |-> IF cut < 0 THEN fields + 4 + cut ELSE cut, base |-> 0, fields |-> fields,
      patches |-> <<<<0, magic>>, <<4, signature>>,
                    <<12, BE32(frameCount) \o BE32(attributes) \o BE16(Len(sizes)) \o
                          BE32(DEFAULT_MASTER_CLOCK) \o BE16(DEFAULT_FRAME_RATE) \o
                          BE32(0) \o BE16(0)>>,
                    <<34, table>>,
                    <<strings, <<97, 0, 0, 99, 0>>>>,
                    <<registers, [i \in 1 .. (IF frameCount <= 2 THEN frameCount * 16 ELSE 0)
                                   |-> i]>>,
                    <<fields, <<69, 110, 100, 33>>>>>>]

\* A YM2/YM3/YM3b file of len bytes: magic, register data and, for YM3b,
\* the loop frame in the last four bytes.
Ym3Bytes(magic, len) ==
  [len |-> len, base |-> 0, fields |-> IF magic[4] = 98 THEN 8 ELSE 4,
   patches |-> <<<<4, [i \in 1 .. 32 |-> i]>>, <<len - 4, IF magic[4] = 98 THEN BE32(1) ELSE <<>>>>,
                 <<0, magic>>>>]

YmMagics5 == {<<89, 77, 53, 33>>, <<89, 77, 54, 33>>, <<89, 77, 52, 33>>}

YmMagics3 == {<<89, 77, 50, 33>>, <<89, 77, 51, 33>>, <<89, 77, 51, 98>>, <<89, 77, 51, 66>>}

YmSignatures == {<<76, 101, 79, 110, 65, 114, 68, 33>>, <<76, 69, 79, 78, 65, 82, 68, 33>>}

YmFrameCounts == {0, 1, 2, 100000, 100001}

YmDrumSizes == {<<>>, <<3>>, <<0, 2>>}

\* lengths counted from the start, and from the end of the whole file (below 0)
YmCuts == {3, 4, 8, 12, 15, 20, 33, 34, 36, 39, 0 - 21, 0 - 8, 0 - 5, 0 - 4, 0 - 2, 0}

Ym3Lengths == {3, 4, 6, 7, 8, 17, 18, 21, 22, 36, 1400017, 1400018, 1400021, 1400022}

YmInputs ==
  {Ym5Bytes(magic, signature, frameCount, attributes, sizes, cut) :
     magic \in YmMagics5, signature \in YmSignatures, frameCount \in YmFrameCounts,
     attributes \in {1, 4}, sizes \in YmDrumSizes, cut \in YmCuts}
  \cup {Ym3Bytes(magic, len) : magic \in YmMagics3, len \in Ym3Lengths}

---------------------------------------------------------------------------
(* SpecYmParse: parseYmFile applied to one input.                          *)

InitYmParse ==
  /\ sampleRate = 48000
  /\ workletNode = NoNode
  /\ workletReady = FALSE
  /\ pendingMessages = <<>>
  /\ moduleLoaded = FALSE
  /\ awaiting = <<0, 0>>
  /\ kind = "core"
  /\ file = NoFile
  /\ player = NoPlayer
  /\ arg = NoArg
  /\ DriverConstructed
  /\ HistoryEmpty
  /\ envGen = NewBatchEnvelope
  /\ ticker = NoTicker
  /\ nodes = NoNodes
  /\ input \in YmInputs
  /\ input.len >= 0
  /\ parsed = NotParsed
  /\ pt3 = NoPt3

ParseYm ==
  /\ op = "init"
  /\ parsed' = parseYmFile(input)
  /\ op' = "parseYm"
  /\ UNCHANGED <<parseFrame, input>>

NextYmParse == ParseYm

SpecYmParse == InitYmParse /\ [][NextYmParse]_vars

\* the four magic bytes of the input
YmMagic(d) == <<CharCode(d, 0), CharCode(d, 1), CharCode(d, 2), CharCode(d, 3)>>

BadMagic(d) == YmMagic(d) \notin {<<89, 77, 50, 33>>, <<89, 77, 51, 33>>, <<89, 77, 51, 98>>,
                                  <<89, 77, 53, 33>>, <<89, 77, 54, 33>>}

IsYm5Ym6(d) == YmMagic(d) \in {<<89, 77, 53, 33>>, <<89, 77, 54, 33>>}

MissingSignature(d) ==
  IsYm5Ym6(d) /\ BytesOf(Slice(d, 4, 12)) # <<76, 101, 79, 110, 65, 114, 68, 33>>

FrameCountAboveLimit(d) ==
  IF IsYm5Ym6(d) THEN ViewHolds(d, 12, 4) /\ Uint32BE(d, 12) > MAX_FRAME_COUNT
  ELSE ~BadMagic(d) /\ (d.len - d.fields) \div 14 > MAX_FRAME_COUNT

\* the fields of the file do not fit in the input
FieldPastEnd(d) == ~BadMagic(d) /\ d.len < d.fields

\* C19: parseYmFile fails, returning no file, when the magic is not one of
\* the five tags, when a YM5/YM6 file lacks the "LeOnArD!" signature, when
\* the frame count is above 100000 and whenever a field (header, digidrum
\* table, strings, frame data, the YM3b loop-frame trailer) does not fit in
\* the input.
C19_ParseYmFileErrors ==
  (op = "parseYm" /\ (\/ BadMagic(input)
                      \/ MissingSignature(input)
                      \/ FrameCountAboveLimit(input)
                      \/ FieldPastEnd(input)))
    => ~parsed.ok

---------------------------------------------------------------------------
(* The PT3 pattern interpreter and register generator: class Pt3Player of  *)
(* src/packages/core/src/pt3/player.ts, statement by statement.  A player  *)
(* is [state, finished, trace]: state is the Pt3PlayerState (each channel  *)
(* with the patternData initPosition attaches), trace is history.          *)

\* Op applied to the value of e (e is evaluated once, before Op's body)
Bind(Op(_), e) == CHOOSE r \in {Op(x) : x \in {e}} : TRUE

\* createChannelState
createChannelState ==
  [addressInPattern |-> 0, ornamentIndex |-> 0, sampleIndex |-> 0, tone |-> 0,
   loopOrnamentPosition |-> 0, ornamentLength |-> 0, positionInOrnament |-> 0,
   loopSamplePosition |-> 0, sampleLength |-> 0, positionInSample |-> 0,
   volume |-> 15, numberOfNotesToSkip |-> 0, note |-> 0, slideToNote |-> 0,
   amplitude |-> 0, envelopeEnabled |-> FALSE, enabled |-> FALSE, simpleGliss |-> FALSE,
   currentAmplitudeSliding |-> 0, currentNoiseSliding |-> 0, currentEnvelopeSliding |-> 0,
   tonSlideCount |-> 0, currentOnOff |-> 0, onOffDelay |-> 0, offOnDelay |-> 0,
   tonSlideDelay |-> 0, currentTonSliding |-> 0, tonAccumulator |-> 0, tonSlideStep |-> 0,
   tonDelta |-> 0, noteSkipCounter |-> 1, patternData |-> <<>>]

\* createPlayerState
createPlayerState(version, delay) ==
  [version |-> version, envBaseLo |-> 0, envBaseHi |-> 0, curEnvSlide |-> 0,
   envSlideAdd |-> 0, curEnvDelay |-> 0, envDelay |-> 0, newEnvelopeShape |-> 255,
   noiseBase |-> 0, delay |-> delay, addToNoise |-> 0, delayCounter |-> 1,
   currentPosition |-> 0, channels |-> [ch \in Channels |-> createChannelState]]

\* history of one channel: the byte that ended the row interpreted on the
\* last tick ("none" when no row was) and its effects, whether a 0xC0 has
\* stopped the channel, whether the last row's note re-triggered a stopped
\* channel, the sample and ornament positions register generation read on
\* the last tick (-1: none), and the portamento under way.  Of the last row
\* interpreted it also keeps the command bytes, the address its parameter
\* bytes start at, the sample and ornament positions it left, the
\* numberOfNotesToSkip in force before it and the number of row steps since
\* the row before it (gap); rested counts the row steps the channel has sat
\* out since, and vib follows the on/off vibrato.
NoVib == [phase |-> "idle", ticks |-> 0]

NoPorta == [phase |-> "idle", ticks |-> 0, delay |-> 0, step |-> 0, carry |-> 0, delta |-> 0]

NoTrace ==
  [row |-> "none", effects |-> <<>>, stopped |-> FALSE, retrigger |-> FALSE,
   readSample |-> 0 - 1, readOrnament |-> 0 - 1, generated |-> FALSE, porta |-> NoPorta,
   commands |-> <<>>, paramStart |-> 0, rowSample |-> 0, rowOrnament |-> 0,
   skip |-> 0, gap |-> 0, rested |-> 0, vib |-> NoVib]

\* history of the player's row clock: whether the last tick processed rows
\* (step), whether no row step has happened yet (first), the ticks since the
\* last row step (since), the ticks between the last two row steps (period),
\* max(1, delay) as it stood after the row step before the last one (due) and
\* after the last one (rearmed; 1 for a new player, whose first row is due
\* on its first tick), the position before the last tick (from),
\* whether the last tick moved a channel's pattern cursor (consumed) and
\* whether it changed the position (moved).
NoClock ==
  [step |-> FALSE, first |-> TRUE, since |-> 0, period |-> 0, due |-> 0, rearmed |-> 1,
   from |-> 0, consumed |-> FALSE, moved |-> FALSE, ticked |-> FALSE]

\* the three data streams of a pattern
ChannelData(pattern, ch) ==
  IF ch = 0 THEN pattern.channelA ELSE IF ch = 1 THEN pattern.channelB ELSE pattern.channelC

\* Pt3Player.initPosition, with a position past the last one ignored
pt3InitPositionNeverFinishes(pl, f, position) ==
  IF position >= f.numberOfPositions THEN pl
  ELSE LET patternNum == f.positionList[position + 1] \div 3
       IN IF patternNum >= Len(f.patterns) THEN [pl EXCEPT !.finished = TRUE]
          ELSE [pl EXCEPT !.state.channels =
                  [ch \in Channels |->
                     [pl.state.channels[ch] EXCEPT
                        !.addressInPattern = 0,
                        !.patternData = ChannelData(f.patterns[patternNum + 1], ch)]]]

\* Pt3Player.initPosition
pt3InitPosition(pl, f, position) ==
  IF position >= f.numberOfPositions THEN [pl EXCEPT !.finished = TRUE]
  ELSE LET patternNum == f.positionList[position + 1] \div 3
       IN IF patternNum >= Len(f.patterns) THEN [pl EXCEPT !.finished = TRUE]
          ELSE [pl EXCEPT !.state.channels =
                  [ch \in Channels |->
                     [pl.state.channels[ch] EXCEPT
                        !.addressInPattern = 0,
                        !.patternData = ChannelData(f.patterns[patternNum + 1], ch)]]]

\* new Pt3Player(file)
pt3Construct(f) ==
  pt3InitPosition([state |-> createPlayerState(f.version, Max(1, f.delay)),
                   finished |-> FALSE,
                   trace |-> [ch \in Channels |-> NoTrace],
                   clock |-> NoClock], f, 0)

\* reset() without its initPosition(0)
pt3ResetWithoutInitPosition(f) ==
  [state |-> createPlayerState(f.version, f.delay),
   finished |-> FALSE,
   trace |-> [ch \in Channels |-> NoTrace],
   clock |-> NoClock]

\* Pt3Player.reset
pt3Reset(f) ==
  pt3InitPosition([state |-> createPlayerState(f.version, f.delay),
                   finished |-> FALSE,
                   trace |-> [ch \in Channels |-> NoTrace],
                   clock |-> NoClock], f, 0)

\* Pt3Player.getPatternByte
getPatternByte(chan, offset) ==
  IF offset >= Len(chan.patternData) THEN 0 ELSE chan.patternData[offset + 1]

\* Pt3Player.setSample
setSample(f, chan, sampleNum) ==
  IF sampleNum >= 0 /\ sampleNum < Len(f.samples)
  THEN [chan EXCEPT !.sampleIndex = sampleNum,
                    !.loopSamplePosition = f.samples[sampleNum + 1].loopPosition,
                    !.sampleLength = f.samples[sampleNum + 1].length]
  ELSE chan

\* Pt3Player.setOrnament
setOrnament(f, chan, ornamentNum) ==
  IF ornamentNum >= 0 /\ ornamentNum < Len(f.ornaments)
  THEN [chan EXCEPT !.ornamentIndex = ornamentNum,
                    !.loopOrnamentPosition = f.ornaments[ornamentNum + 1].loopPosition,
                    !.ornamentLength = f.ornaments[ornamentNum + 1].length]
  ELSE chan

\* a signed 16-bit value from its two bytes
Signed16(lo, hi) == IF lo + 256 * hi > 32767 THEN lo + 256 * hi - 65536 ELSE lo + 256 * hi

\* interpretPattern, case 0x50-0xAF with the positions left as they were
noteOnKeepsPositions(chan, byte) ==
  [chan EXCEPT !.note = byte - 80,
               !.currentAmplitudeSliding = 0, !.currentNoiseSliding = 0,
               !.currentEnvelopeSliding = 0,
               !.tonSlideCount = 0, !.currentTonSliding = 0, !.tonAccumulator = 0,
               !.currentOnOff = 0, !.enabled = TRUE]

\* interpretPattern, case 0x50-0xAF: the note of a row
noteOn(chan, byte) ==
  [chan EXCEPT !.note = byte - 80,
               !.positionInSample = 0,
               !.currentAmplitudeSliding = 0, !.currentNoiseSliding = 0,
               !.currentEnvelopeSliding = 0, !.positionInOrnament = 0,
               !.tonSlideCount = 0, !.currentTonSliding = 0, !.tonAccumulator = 0,
               !.currentOnOff = 0, !.enabled = TRUE]

\* interpretPattern, case 0xC0: note off
noteOff(chan) ==
  [chan EXCEPT !.positionInSample = 0,
               !.currentAmplitudeSliding = 0, !.currentNoiseSliding = 0,
               !.currentEnvelopeSliding = 0, !.positionInOrnament = 0,
               !.tonSlideCount = 0, !.currentTonSliding = 0, !.tonAccumulator = 0,
               !.currentOnOff = 0, !.enabled = FALSE]

\* interpretPattern, cases 0xB2-0xBF and 0x11-0x1F, with no new envelope
\* shape left pending
envelopeOnKeepsShape(st, channel, shape) ==
  LET chan == st.channels[channel]
      a == chan.addressInPattern
  IN [st EXCEPT !.envBaseHi = getPatternByte(chan, a + 1),
                !.envBaseLo = getPatternByte(chan, a + 2),
                !.curEnvSlide = 0,
                !.curEnvDelay = 0,
                !.channels[channel] = [chan EXCEPT !.envelopeEnabled = TRUE,
                                                   !.addressInPattern = a + 2,
                                                   !.positionInOrnament = 0]]

\* interpretPattern, cases 0xB2-0xBF and 0x11-0x1F: the envelope a row
\* enables, its period read from the two bytes after the command
envelopeOn(st, channel, shape) ==
  LET chan == st.channels[channel]
      a == chan.addressInPattern
  IN [st EXCEPT !.newEnvelopeShape = shape,
                !.envBaseHi = getPatternByte(chan, a + 1),
                !.envBaseLo = getPatternByte(chan, a + 2),
                !.curEnvSlide = 0,
                !.curEnvDelay = 0,
                !.channels[channel] = [chan EXCEPT !.envelopeEnabled = TRUE,
                                                   !.addressInPattern = a + 2,
                                                   !.positionInOrnament = 0]]

\* interpretPattern, first pass: one command of the row.  The result is the
\* player state with addressInPattern advanced, whether the row ended, what
\* ended it, and the effects collected.
rowCommand(st, f, channel, effects) ==
  LET chan == st.channels[channel]
      a == chan.addressInPattern
      byte == getPatternByte(chan, a)
      with(c) == [st EXCEPT !.channels[channel] = c]
      step(s, quit, row, eff) ==
        [st |-> [s EXCEPT !.channels[channel].addressInPattern = @ + 1],
         quit |-> quit, row |-> row, effects |-> eff, commands |-> <<byte>>]
  IN IF byte = 0 THEN [st |-> st, quit |-> TRUE, row |-> "end", effects |-> effects,
                       commands |-> <<>>]
     ELSE IF byte >= 240
       THEN LET c1 == setOrnament(f, chan, byte - 240)
                c2 == setSample(f, c1, getPatternByte(chan, a + 1) \div 2)
            IN step(with([c2 EXCEPT !.addressInPattern = a + 1,
                                    !.envelopeEnabled = FALSE,
                                    !.positionInOrnament = 0]), FALSE, "", effects)
     ELSE IF byte >= 209 THEN step(with(setSample(f, chan, byte - 208)), FALSE, "", effects)
     ELSE IF byte = 208 THEN step(st, TRUE, "rest", effects)
     ELSE IF byte >= 193 THEN step(with([chan EXCEPT !.volume = byte - 192]), FALSE, "", effects)
     ELSE IF byte = 192 THEN step(with(noteOff(chan)), TRUE, "off", effects)
     ELSE IF byte >= 178 THEN step(envelopeOn(st, channel, byte - 177), FALSE, "", effects)
     ELSE IF byte = 177
       THEN step(with([chan EXCEPT !.addressInPattern = a + 1,
                                   !.numberOfNotesToSkip = getPatternByte(chan, a + 1)]),
                 FALSE, "", effects)
     ELSE IF byte = 176
       THEN step(with([chan EXCEPT !.envelopeEnabled = FALSE, !.positionInOrnament = 0]),
                 FALSE, "", effects)
     ELSE IF byte >= 80 THEN step(with(noteOn(chan, byte)), TRUE, "note", effects)
     ELSE IF byte >= 64
       THEN step(with([setOrnament(f, chan, byte - 64) EXCEPT !.positionInOrnament = 0]),
                 FALSE, "", effects)
     ELSE IF byte >= 32 THEN step([st EXCEPT !.noiseBase = byte - 32], FALSE, "", effects)
     ELSE IF byte >= 16
       THEN LET s1 == IF byte = 16
                      THEN with([chan EXCEPT !.envelopeEnabled = FALSE])
                      ELSE envelopeOn(st, channel, byte - 16)
                c1 == s1.channels[channel]
                a1 == c1.addressInPattern + 1
                c2 == setSample(f, c1, getPatternByte(c1, a1) \div 2)
            IN step([s1 EXCEPT !.channels[channel] =
                       [c2 EXCEPT !.addressInPattern = a1, !.positionInOrnament = 0]],
                    FALSE, "", effects)
     ELSE IF byte >= 1 /\ byte <= 9 THEN step(st, FALSE, "", Append(effects, byte))
     ELSE step(st, FALSE, "", effects)

\* interpretPattern, first pass: up to n more iterations of the loop from
\* the result acc of the iterations before them (the n iterations are run
\* as two halves, one after the other)
RECURSIVE rowRun(_, _, _, _)
rowRun(acc, f, channel, n) ==
  IF acc.quit \/ n <= 0 THEN acc
  ELSE IF n = 1
    THEN Bind(LAMBDA r : [r EXCEPT !.commands = acc.commands \o @],
              rowCommand(acc.st, f, channel, acc.effects))
  ELSE Bind(LAMBDA half : rowRun(half, f, channel, n - n \div 2),
            rowRun(acc, f, channel, n \div 2))

\* interpretPattern, first pass, with the limit at 200 iterations
rowCommandsCappedLater(st, f, channel, effects, commands, iterations) ==
  rowRun([st |-> st, quit |-> FALSE, row |-> "", effects |-> effects, commands |-> commands],
         f, channel, 200 - iterations)

\* interpretPattern, first pass: commands until the row ends (or 100
\* iterations have run)
rowCommands(st, f, channel, effects, commands, iterations) ==
  rowRun([st |-> st, quit |-> FALSE, row |-> "", effects |-> effects, commands |-> commands],
         f, channel, 100 - iterations)

\* interpretPattern, second pass: one effect, its parameters read from
\* addressInPattern on
applyEffect(st, f, channel, effectType, prNote, prSliding) ==
  LET chan == st.channels[channel]
      a == chan.addressInPattern
      b(k) == getPatternByte(chan, a + k)
      with(c) == [st EXCEPT !.channels[channel] = c]
  IN CASE effectType = 1 ->
            with([chan EXCEPT !.tonSlideDelay = b(0), !.tonSlideCount = b(0),
                              !.tonSlideStep = Signed16(b(1), b(2)),
                              !.simpleGliss = TRUE, !.currentOnOff = 0,
                              !.addressInPattern = a + 3])
       [] effectType = 2 ->
            LET magnitude == IF Signed16(b(3), b(4)) < 0 THEN 0 - Signed16(b(3), b(4))
                             ELSE Signed16(b(3), b(4))
                tonDelta == f.toneTable[chan.note + 1] - f.toneTable[prNote + 1]
                sliding == IF st.version >= 6 THEN prSliding ELSE chan.currentTonSliding
            IN with([chan EXCEPT !.simpleGliss = FALSE, !.currentOnOff = 0,
                                 !.tonSlideDelay = b(0), !.tonSlideCount = b(0),
                                 !.addressInPattern = a + 5,
                                 !.tonSlideStep = IF tonDelta - sliding < 0
                                                  THEN 0 - magnitude ELSE magnitude,
                                 !.tonDelta = tonDelta,
                                 !.slideToNote = chan.note,
                                 !.note = prNote,
                                 !.currentTonSliding = sliding])
       [] effectType = 3 ->
            with([chan EXCEPT !.positionInSample = b(0), !.addressInPattern = a + 1])
       [] effectType = 4 ->
            with([chan EXCEPT !.positionInOrnament = b(0), !.addressInPattern = a + 1])
       [] effectType = 5 ->
            with([chan EXCEPT !.onOffDelay = b(0), !.offOnDelay = b(1),
                              !.currentOnOff = b(0), !.tonSlideCount = 0,
                              !.currentTonSliding = 0, !.addressInPattern = a + 2])
       [] effectType = 8 ->
            [with([chan EXCEPT !.addressInPattern = a + 3])
               EXCEPT !.envDelay = b(0), !.curEnvDelay = b(0),
                      !.envSlideAdd = Signed16(b(1), b(2))]
       [] effectType = 9 ->
            [with([chan EXCEPT !.addressInPattern = a + 1]) EXCEPT !.delay = Max(1, b(0))]
       [] OTHER -> st

\* interpretPattern, second pass, with the effects taken in stream order
RECURSIVE applyEffectsInStreamOrder(_, _, _, _, _, _, _)
applyEffectsInStreamOrder(st, f, channel, effects, i, prNote, prSliding) ==
  IF i < 1 THEN st
  ELSE Bind(LAMBDA next : applyEffectsInStreamOrder(next, f, channel, effects, i - 1,
                                                    prNote, prSliding),
            applyEffect(st, f, channel, effects[Len(effects) - i + 1], prNote, prSliding))

\* interpretPattern, second pass: the effects from the last one back
RECURSIVE applyEffects(_, _, _, _, _, _, _)
applyEffects(st, f, channel, effects, i, prNote, prSliding) ==
  IF i < 1 THEN st
  ELSE Bind(LAMBDA next : applyEffects(next, f, channel, effects, i - 1, prNote, prSliding),
            applyEffect(st, f, channel, effects[i], prNote, prSliding))

\* The history a row leaves: what ended it, whether its note re-triggered a
\* channel a 0xC0 had stopped, and the portamento a note with effect 0x02
\* alone starts (a later note, note off or effect 0x01, 0x02, 0x05 on the
\* channel interrupts it).
rowTrace(old, r, chan, prior, paramStart) ==
  LET touches == r.row \in {"note", "off"} \/ \E k \in 1 .. Len(r.effects) : r.effects[k] \in {1, 2, 5}
  IN [old EXCEPT
        !.row = r.row,
        !.effects = r.effects,
        !.commands = r.commands,
        !.paramStart = paramStart,
        !.rowSample = chan.positionInSample,
        !.rowOrnament = chan.positionInOrnament,
        !.skip = prior.numberOfNotesToSkip,
        !.gap = old.rested + 1,
        !.rested = 0,
        !.vib = IF \E k \in 1 .. Len(r.effects) : r.effects[k] = 5
                THEN (IF chan.enabled /\ chan.currentOnOff > 0
                      THEN [phase |-> "on", ticks |-> 0] ELSE NoVib)
                ELSE IF r.commands = <<208>> THEN @ ELSE NoVib,
        !.stopped = IF r.row = "off" THEN TRUE ELSE IF r.row = "note" THEN FALSE ELSE @,
        !.retrigger = r.row = "note" /\ old.stopped,
        !.porta = IF r.row = "note" /\ r.effects = <<2>>
                  THEN [phase |-> "sliding", ticks |-> 0, delay |-> chan.tonSlideDelay,
                        step |-> IF chan.tonSlideStep < 0 THEN 0 - chan.tonSlideStep
                                 ELSE chan.tonSlideStep,
                        carry |-> chan.currentTonSliding, delta |-> chan.tonDelta]
                  ELSE IF @.phase = "sliding" /\ touches THEN [@ EXCEPT !.phase = "interrupted"]
                  ELSE @]

\* Pt3Player.interpretPattern, with the skip counter re-armed one higher
interpretPatternSkipsOneMore(pl, f, channel) ==
  LET prNote == pl.state.channels[channel].note
      prSliding == pl.state.channels[channel].currentTonSliding
      done(r, st) ==
        [pl EXCEPT !.state = [st EXCEPT !.channels[channel].noteSkipCounter =
                                          st.channels[channel].numberOfNotesToSkip + 1],
                   !.trace[channel] = rowTrace(@, r, st.channels[channel],
                                               pl.state.channels[channel],
                                               r.st.channels[channel].addressInPattern)]
      second(r) ==
        Bind(LAMBDA st : done(r, st),
             applyEffects(r.st, f, channel, r.effects, Len(r.effects), prNote, prSliding))
  IN Bind(second, rowCommands(pl.state, f, channel, <<>>, <<>>, 0))

\* Pt3Player.interpretPattern
interpretPattern(pl, f, channel) ==
  LET prNote == pl.state.channels[channel].note
      prSliding == pl.state.channels[channel].currentTonSliding
      done(r, st) ==
        [pl EXCEPT !.state = [st EXCEPT !.channels[channel].noteSkipCounter =
                                          st.channels[channel].numberOfNotesToSkip],
                   !.trace[channel] = rowTrace(@, r, st.channels[channel],
                                               pl.state.channels[channel],
                                               r.st.channels[channel].addressInPattern)]
      second(r) ==
        Bind(LAMBDA st : done(r, st),
             applyEffects(r.st, f, channel, r.effects, Len(r.effects), prNote, prSliding))
  IN Bind(second, rowCommands(pl.state, f, channel, <<>>, <<>>, 0))

\* generateRegisters, "Handle tone sliding", with the portamento never
\* checked against its target
slideAdvanceNeverArrives(chan) ==
  IF chan.tonSlideCount > 0
  THEN IF chan.tonSlideCount - 1 = 0
       THEN [chan EXCEPT !.currentTonSliding = @ + chan.tonSlideStep,
                         !.tonSlideCount = chan.tonSlideDelay]
       ELSE [chan EXCEPT !.tonSlideCount = @ - 1]
  ELSE chan

\* generateRegisters, "Handle tone sliding"
slideAdvance(chan) ==
  IF chan.tonSlideCount > 0
  THEN IF chan.tonSlideCount - 1 = 0
       THEN LET sliding == chan.currentTonSliding + chan.tonSlideStep
            IN IF /\ ~chan.simpleGliss
                  /\ \/ chan.tonSlideStep < 0 /\ sliding <= chan.tonDelta
                     \/ chan.tonSlideStep >= 0 /\ sliding >= chan.tonDelta
               THEN [chan EXCEPT !.note = chan.slideToNote, !.tonSlideCount = 0,
                                 !.currentTonSliding = 0]
               ELSE [chan EXCEPT !.currentTonSliding = sliding,
                                 !.tonSlideCount = chan.tonSlideDelay]
       ELSE [chan EXCEPT !.tonSlideCount = @ - 1]
  ELSE chan

\* generateRegisters, "Handle vibrato (on/off)"
onOffAdvance(chan) ==
  IF chan.currentOnOff > 0
  THEN IF chan.currentOnOff - 1 = 0
       THEN LET nextDelay == IF ~chan.enabled THEN chan.onOffDelay ELSE chan.offOnDelay
            IN [chan EXCEPT !.enabled = ~chan.enabled,
                            !.currentOnOff = IF nextDelay > 0 THEN nextDelay ELSE 1]
       ELSE [chan EXCEPT !.currentOnOff = @ - 1]
  ELSE chan

\* x << ch for a channel number
ShiftByChannel(x, ch) == x * (IF ch = 0 THEN 1 ELSE IF ch = 1 THEN 2 ELSE 4)

SetToneReg(regs, ch, v) ==
  IF ch = 0 THEN [regs EXCEPT !.toneA = v]
  ELSE IF ch = 1 THEN [regs EXCEPT !.toneB = v] ELSE [regs EXCEPT !.toneC = v]

SetVolumeReg(regs, ch, v) ==
  IF ch = 0 THEN [regs EXCEPT !.volumeA = v]
  ELSE IF ch = 1 THEN [regs EXCEPT !.volumeB = v] ELSE [regs EXCEPT !.volumeC = v]

\* The history a tick leaves on a channel: the positions read, and the
\* portamento one tick further.
tickTrace(old, chan, readSample, readOrnament) ==
  [old EXCEPT
     !.readSample = readSample,
     !.readOrnament = readOrnament,
     !.generated = readSample >= 0,
     !.vib = IF @.phase = "on" /\ ~chan.enabled THEN [phase |-> "off", ticks |-> 0]
             ELSE IF @.phase = "off" /\ chan.enabled THEN [phase |-> "on", ticks |-> 0]
             ELSE IF @.phase = "off" THEN [@ EXCEPT !.ticks = @ + 1]
             ELSE @,
     !.porta = IF @.phase # "sliding" THEN @
               ELSE [@ EXCEPT !.ticks = @ + 1,
                              !.phase = IF /\ chan.note = chan.slideToNote
                                           /\ chan.tonSlideCount = 0
                                           /\ chan.currentTonSliding = 0
                                        THEN "arrived" ELSE "sliding"]]

\* generateRegisters, "Calculate tone", with the sum left unmasked
toneRegisterUnmasked(tone0, sliding, basePeriod) == tone0 + sliding + basePeriod

\* generateRegisters, "Calculate tone": the 12 bits of the tone register
toneRegister(tone0, sliding, basePeriod) == (tone0 + sliding + basePeriod) % 4096

\* generateRegisters, the loop body for channel ch; acc carries the
\* player state, the registers, mixer and addToEnv
generateChannel(acc, f, ch) ==
  LET chan == acc.st.channels[ch]
      hasSample == chan.sampleIndex < Len(f.samples)
      sample == f.samples[chan.sampleIndex + 1]
      hasOrnament == chan.ornamentIndex < Len(f.ornaments)
      ornament == f.ornaments[chan.ornamentIndex + 1]
      sampleFrame == sample.frames[Min(chan.positionInSample, Len(sample.frames) - 1) + 1]
      tone0 == sampleFrame.toneOffset + chan.tonAccumulator
      ornOffset == IF hasOrnament /\ Len(ornament.offsets) > 0
                   THEN ornament.offsets[Min(chan.positionInOrnament,
                                             Len(ornament.offsets) - 1) + 1]
                   ELSE 0
      note == Max(0, Min(95, chan.note + ornOffset))
      tone == toneRegister(tone0, chan.currentTonSliding, f.toneTable[note + 1])
      c1 == IF sampleFrame.accumulateTone THEN [chan EXCEPT !.tonAccumulator = tone0] ELSE chan
      \* amplitude: sliding before the volume table
      amplify(c2) ==
        LET ampSliding == c2.currentAmplitudeSliding + sampleFrame.amplitudeSlide
            amp0 == IF sampleFrame.amplitudeSlideEnabled
                    THEN sampleFrame.amplitude + ampSliding ELSE sampleFrame.amplitude
        IN [c2 EXCEPT !.currentAmplitudeSliding =
                         IF sampleFrame.amplitudeSlideEnabled THEN ampSliding ELSE @,
                      !.amplitude = f.volumeTable[c2.volume + 1][Max(0, Min(15, amp0)) + 1]]
      envValue(c3) == IF sampleFrame.accumulateNoise
                      THEN c3.currentEnvelopeSliding + sampleFrame.noiseOffset
                      ELSE sampleFrame.noiseOffset
      noiseValue(c3) == (sampleFrame.envelopeOffset % 32) + c3.currentNoiseSliding
      \* envelope or noise offset, then the sample and ornament positions
      advance(c3) ==
        [c3 EXCEPT
           !.currentEnvelopeSliding =
              IF sampleFrame.noiseMask /\ sampleFrame.accumulateNoise THEN envValue(c3) ELSE @,
           !.currentNoiseSliding =
              IF ~sampleFrame.noiseMask /\ sampleFrame.accumulateNoise THEN noiseValue(c3) ELSE @,
           !.positionInSample = IF @ + 1 >= c3.sampleLength
                                THEN c3.loopSamplePosition ELSE @ + 1,
           !.positionInOrnament = IF @ + 1 >= c3.ornamentLength
                                  THEN c3.loopOrnamentPosition ELSE @ + 1]
      sounding(c3) ==
        [acc EXCEPT
           !.st = [@ EXCEPT !.channels[ch] = advance(c3),
                            !.addToNoise = IF sampleFrame.noiseMask THEN @ ELSE noiseValue(c3)],
           !.regs = SetVolumeReg(SetToneReg(@, ch, tone), ch,
                                 IF c3.envelopeEnabled /\ ~sampleFrame.envelopeMask
                                 THEN c3.amplitude + 16 ELSE c3.amplitude),
           !.mixer = @ + (IF sampleFrame.toneMask THEN ShiftByChannel(1, ch) ELSE 0)
                       + (IF sampleFrame.noiseMask THEN ShiftByChannel(8, ch) ELSE 0),
           !.addToEnv = IF sampleFrame.noiseMask THEN @ + envValue(c3) ELSE @,
           !.trace[ch] = tickTrace(@, advance(c3), chan.positionInSample,
                                   IF hasOrnament /\ Len(ornament.offsets) > 0
                                   THEN chan.positionInOrnament ELSE 0 - 1)]
  IN IF ~chan.enabled
     THEN [acc EXCEPT !.st.channels[ch].amplitude = 0,
                      !.regs = SetVolumeReg(@, ch, 0),
                      !.mixer = @ + ShiftByChannel(9, ch),
                      !.trace[ch] = tickTrace(@, chan, 0 - 1, 0 - 1)]
     ELSE IF ~hasSample \/ Len(sample.frames) = 0
     THEN [acc EXCEPT !.mixer = @ + ShiftByChannel(9, ch),
                      !.trace[ch] = tickTrace(@, chan, 0 - 1, 0 - 1)]
     ELSE Bind(sounding, Bind(amplify, Bind(onOffAdvance, Bind(slideAdvance, c1))))

\* Pt3Player.generateRegisters, the loop over the channels
RECURSIVE generateChannels(_, _, _)
generateChannels(acc, f, ch) ==
  IF ch > 2 THEN acc
  ELSE Bind(LAMBDA next : generateChannels(next, f, ch + 1), generateChannel(acc, f, ch))

\* Pt3Player.generateRegisters: the player and the registers after it
generateRegisters(pl, f, regs) ==
  LET acc0 == [st |-> [pl.state EXCEPT !.addToNoise = 0], regs |-> regs, mixer |-> 0,
               addToEnv |-> 0, trace |-> pl.trace]
      finish(acc) ==
        LET st == acc.st
            envPeriod == Max(0, Min(65535, st.envBaseHi * 256 + st.envBaseLo
                                           + st.curEnvSlide + acc.addToEnv))
            slides == st.curEnvDelay > 0 /\ st.curEnvDelay - 1 = 0
        IN [pl |-> [pl EXCEPT
                !.state = [st EXCEPT
                             !.newEnvelopeShape = 255,
                             !.curEnvDelay = IF @ > 0
                                             THEN (IF slides THEN st.envDelay ELSE @ - 1)
                                             ELSE @,
                             !.curEnvSlide = IF slides THEN @ + st.envSlideAdd ELSE @],
                !.trace = acc.trace],
      regs |-> [acc.regs EXCEPT
                  !.noise = (st.noiseBase + st.addToNoise) % 32,
                  !.envelopePeriod = envPeriod,
                  !.envelopeShape = IF st.newEnvelopeShape # 255
                                    THEN st.newEnvelopeShape % 16 ELSE @,
                  !.mixer = acc.mixer]]
  IN Bind(finish, generateChannels(acc0, f, 0))

\* Pt3Player.tick, the rows of a tick whose delay counter has run out
RECURSIVE interpretChannels(_, _, _)
interpretChannels(pl, f, ch) ==
  IF ch > 2 THEN pl
  ELSE Bind(LAMBDA next : interpretChannels(next, f, ch + 1),
            IF pl.state.channels[ch].noteSkipCounter <= 0
            THEN interpretPattern(pl, f, ch)
            ELSE [pl EXCEPT !.trace[ch].rested = @ + 1])

\* Pt3Player.tick's row step, with the delay counter re-armed one higher
pt3RowsRearmsLate(pl, f) ==
  LET skipped == [pl EXCEPT !.state.channels =
                    [ch \in Channels |-> [@[ch] EXCEPT !.noteSkipCounter = @ - 1]]]
      needsPositionChange ==
        \E ch \in Channels :
          /\ skipped.state.channels[ch].noteSkipCounter <= 0
          /\ getPatternByte(skipped.state.channels[ch],
                            skipped.state.channels[ch].addressInPattern) = 0
      position == IF skipped.state.currentPosition + 1 >= f.numberOfPositions
                  THEN f.loopPosition ELSE skipped.state.currentPosition + 1
      moved == pt3InitPosition([skipped EXCEPT !.state.currentPosition = position],
                               f, position)
      placed == IF needsPositionChange
                THEN [moved EXCEPT !.state.channels =
                        [ch \in Channels |-> [@[ch] EXCEPT !.noteSkipCounter = 0]],
                                   !.clock.moved = TRUE]
                ELSE skipped
      rows(from) == interpretChannels(from, f, 0)
      rearm(after) == [after EXCEPT !.state.delayCounter = Max(1, after.state.delay) + 1,
                                    !.clock.step = TRUE]
  IN Bind(rearm, Bind(rows, placed))

\* Pt3Player.tick, the row step of a tick whose delay counter has run out
pt3Rows(pl, f) ==
  LET skipped == [pl EXCEPT !.state.channels =
                    [ch \in Channels |-> [@[ch] EXCEPT !.noteSkipCounter = @ - 1]]]
      needsPositionChange ==
        \E ch \in Channels :
          /\ skipped.state.channels[ch].noteSkipCounter <= 0
          /\ getPatternByte(skipped.state.channels[ch],
                            skipped.state.channels[ch].addressInPattern) = 0
      position == IF skipped.state.currentPosition + 1 >= f.numberOfPositions
                  THEN f.loopPosition ELSE skipped.state.currentPosition + 1
      moved == pt3InitPosition([skipped EXCEPT !.state.currentPosition = position],
                               f, position)
      placed == IF needsPositionChange
                THEN [moved EXCEPT !.state.channels =
                        [ch \in Channels |-> [@[ch] EXCEPT !.noteSkipCounter = 0]],
                                   !.clock.moved = TRUE]
                ELSE skipped
      rows(from) == interpretChannels(from, f, 0)
      rearm(after) == [after EXCEPT !.state.delayCounter = Max(1, after.state.delay),
                                    !.clock.step = TRUE]
  IN Bind(rearm, Bind(rows, placed))

\* Pt3Player.tick: the player after the tick and the registers it returns
pt3Tick(pl, f) ==
  LET fresh0 == [pl EXCEPT !.trace =
                   [ch \in Channels |->
                      [@[ch] EXCEPT !.row = "none", !.effects = <<>>, !.commands = <<>>,
                                    !.retrigger = FALSE,
                                    !.readSample = 0 - 1, !.readOrnament = 0 - 1,
                                    !.generated = FALSE]]]
      counted == [fresh0 EXCEPT !.state.delayCounter = @ - 1, !.clock.step = FALSE,
                                !.clock.moved = FALSE]
      generate(after) == generateRegisters(after, f, createAyRegisters)
      timed(out) ==
        [out EXCEPT !.pl.clock =
           [step |-> @.step,
            first |-> pl.clock.first /\ ~@.step,
            since |-> IF @.step THEN 0 ELSE pl.clock.since + 1,
            period |-> IF @.step THEN pl.clock.since + 1 ELSE pl.clock.period,
            due |-> IF @.step THEN pl.clock.rearmed ELSE pl.clock.due,
            rearmed |-> IF @.step THEN Max(1, out.pl.state.delay) ELSE pl.clock.rearmed,
            from |-> pl.state.currentPosition,
            consumed |-> \E ch \in Channels :
                           \/ out.pl.state.channels[ch].addressInPattern
                                # pl.state.channels[ch].addressInPattern
                           \/ out.pl.state.channels[ch].patternData
                                # pl.state.channels[ch].patternData,
            moved |-> @.moved,
            ticked |-> TRUE]]
  IN IF pl.finished
     THEN Bind(timed, [pl |-> [fresh0 EXCEPT !.clock.step = FALSE, !.clock.moved = FALSE],
                       regs |-> createAyRegisters])
     ELSE Bind(timed, Bind(generate, IF counted.state.delayCounter <= 0
                                     THEN pt3Rows(counted, f) ELSE counted))

---------------------------------------------------------------------------
(* SpecPt3Play: a loaded Pt3Replayer driving its players (tick, seek,      *)
(* stop).  The tone and volume tables come from pt3/tables.ts, which is    *)
(* not part of the sources read; the modules below carry tables that fall  *)
(* with the note and scale the amplitude by the volume.                    *)

MaxPlayFrames == 40

\* getToneTable(toneTableId, version): 96 periods
getToneTable(toneTableId, version) ==
  [n \in 1 .. 96 |-> IF toneTableId % 2 = 0 THEN 300 - 2 * (n - 1) ELSE 400 - 3 * (n - 1)]

\* getVolumeTable(version): volumeTable[volume][amplitude]
getVolumeTable(version) ==
  [v \in 1 .. 16 |-> [a \in 1 .. 16 |->
     IF version <= 4 THEN ((v - 1) * (a - 1) + 8) \div 16 ELSE ((v - 1) * (a - 1) + 7) \div 15]]

\* Samples and ornaments as parseSamples and parseOrnaments return them:
\* sample 0 and ornament 0 are the empty ones, sample 1 has three frames
\* (tone on, noise off) and loops to frame 1, ornament 1 has two offsets.
PlaySamples ==
  <<[loopPosition |-> 0, length |-> 1, frames |-> <<createEmptySampleFrame>>],
    [loopPosition |-> 1, length |-> 3,
     frames |-> <<SampleFrame(0, 143, 0, 0), SampleFrame(0, 141, 1, 0),
                  SampleFrame(130, 207, 0, 0)>>]>>

PlayOrnaments ==
  <<[loopPosition |-> 0, length |-> 1, offsets |-> <<0>>],
    [loopPosition |-> 0, length |-> 2, offsets |-> <<0, 0 - 1>>]>>

\* n rows that only rest (0xD0)
Rests(n) == [i \in 1 .. n |-> 208]

\* A pattern whose channel A plays the given rows and whose channels B and
\* C rest for as many rows; every stream ends with 0x00.
PatternOf(bytesA, rowCount) ==
  [channelA |-> bytesA \o <<0>>, channelB |-> Rests(rowCount) \o <<0>>,
   channelC |-> <<177, 1>> \o Rests(rowCount) \o <<0>>]

\* Rows: ornament 1, sample 1 and note 10; note off; note 12 (plain, with
\* effect 0x03 and with effect 0x04); a note with effect 0x01; a note with
\* effect 0x02.
RowFirstNote == <<241, 2, 90>>

RowNoteOff == <<192>>

RowNote == <<92>>

RowNoteAtSample(position) == <<3, 92, position>>

RowNoteAtOrnament(position) == <<4, 92, position>>

RowGliss(delay, step) == <<1, 90, delay, step, 0>>

RowPortamento(note, delay, step) == <<2, 80 + note, delay, 0, 0, step, 0>>

PatRetrigger == PatternOf(RowFirstNote \o RowNoteOff \o RowNote \o Rests(1), 4)

PatRetriggerAtSample == PatternOf(RowFirstNote \o RowNoteOff \o RowNoteAtSample(2) \o Rests(1), 4)

PatRetriggerAtOrnament ==
  PatternOf(RowFirstNote \o RowNoteOff \o RowNoteAtOrnament(1) \o Rests(1), 4)

\* the stopped channel's positions moved by effects 0x03 and 0x04 before
\* the note re-triggers it
PatRetriggerMoved ==
  PatternOf(RowFirstNote \o RowNoteOff \o <<4, 3, 208, 2, 1>> \o RowNote \o Rests(1), 5)

PatPortamento(note, delay, step) ==
  PatternOf(RowFirstNote \o RowPortamento(note, delay, step) \o Rests(8), 10)

PatPortamentoAfterGliss ==
  PatternOf(RowFirstNote \o RowGliss(1, 2) \o Rests(1) \o RowPortamento(13, 1, 1) \o Rests(12), 16)

PatPortamentoCut ==
  PatternOf(RowFirstNote \o RowPortamento(13, 1, 1) \o Rests(2) \o RowNote \o Rests(2), 7)

\* A parsed module: the fields of Pt3File the player reads, and the tables
\* its constructor looks up.
Pt3Module(version, toneTableId, delay, positionList, loopPosition, patterns) ==
  [type |-> "pt3", version |-> version, toneTableId |-> toneTableId, delay |-> delay,
   loopPosition |-> loopPosition, numberOfPositions |-> Len(positionList),
   samples |-> PlaySamples, ornaments |-> PlayOrnaments, patterns |-> patterns,
   positionList |-> positionList,
   toneTable |-> getToneTable(toneTableId, version),
   volumeTable |-> getVolumeTable(version)]

LoopingModule == Pt3Module(6, 0, 1, <<0>>, 0, <<PatRetrigger>>)

\* <<delay, step>> of the portamentos played
PortamentoParams == {<<1, 1>>, <<0, 1>>, <<2, 1>>, <<1, 0>>, <<1, 2>>}

PlayModules ==
  {Pt3Module(6, 0, 1, <<0>>, 1, <<PatRetrigger>>),
   Pt3Module(6, 1, 2, <<0>>, 1, <<PatRetriggerAtSample>>),
   Pt3Module(5, 0, 0, <<0, 3>>, 2, <<PatRetriggerAtOrnament, PatRetrigger>>),
   Pt3Module(6, 0, 1, <<0>>, 1, <<PatRetriggerMoved>>),
   LoopingModule}
  \cup {Pt3Module(6, 0, 1, <<0>>, 1, <<PatPortamento(note, ds[1], ds[2])>>) :
          note \in {8, 13}, ds \in PortamentoParams}
  \cup {Pt3Module(version, 1, 1, <<0>>, 1, <<PatPortamentoAfterGliss>>) : version \in {5, 6}}
  \cup {Pt3Module(6, 0, 1, <<0>>, 1, <<PatPortamentoCut>>)}

\* What the file holds after the first module: nothing, the same module
\* again (for the files that are not a plain portamento), or (for one file)
\* another one.
SecondModules(f) ==
  {<<>>}
  \cup (IF \E note \in {8, 13}, ds \in PortamentoParams :
            f = Pt3Module(6, 0, 1, <<0>>, 1, <<PatPortamento(note, ds[1], ds[2])>>)
        THEN {} ELSE {<<f>>})
  \cup (IF f = Pt3Module(6, 0, 1, <<0>>, 1, <<PatRetrigger>>)
        THEN {<<LoopingModule>>} ELSE {})

PlaySeekFrames == {0, 3, 7}

playFrame == <<sampleRate, chipVars, kind, file, state, intervalId, timers, activeSid,
               activeSyncBuzzer, player, disposed, snapVars, sent, delivered, drumReads,
               portLog, steps, levels, envGen, input, parsed, ticker, nodes>>

\* Pt3Replayer.load: the players of a loaded file
InitPt3Play ==
  /\ sampleRate = 48000
  /\ workletNode = NoNode
  /\ workletReady = FALSE
  /\ pendingMessages = <<>>
  /\ moduleLoaded = FALSE
  /\ awaiting = <<0, 0>>
  /\ kind = "pt3"
  /\ file = NoFile
  /\ player = NoPlayer
  /\ arg = NoArg
  /\ DriverConstructed
  /\ HistoryEmpty
  /\ envGen = NewBatchEnvelope
  /\ ticker = NoTicker
  /\ nodes = NoNodes
  /\ input = NoInput
  /\ parsed = NotParsed
  /\ \E f \in PlayModules : \E second \in SecondModules(f) :
       pt3 = [loaded |-> TRUE, file |-> f, second |-> second,
              player |-> pt3Construct(f),
              player2 |-> [i \in 1 .. Len(second) |-> pt3Construct(second[i])],
              regs |-> createAyRegisters,
              regs2 |-> [i \in 1 .. Len(second) |-> createAyRegisters],
              ticks |-> 0]

\* both players one tick on: <<player, player2, regs, regs2>>
tickPlayersFirstOnly(p) ==
  LET first(t1) == [p EXCEPT !.player = t1.pl, !.regs = t1.regs, !.ticks = @ + 1]
  IN Bind(first, pt3Tick(p.player, p.file))

tickPlayers(p) ==
  LET first(t1) == [p EXCEPT !.player = t1.pl, !.regs = t1.regs, !.ticks = @ + 1]
      second(t2) == [p EXCEPT !.player2 = [i \in 1 .. Len(p.player2) |-> t2[i].pl],
                              !.regs2 = [i \in 1 .. Len(p.player2) |-> t2[i].regs]]
  IN Bind(LAMBDA t1 :
            Bind(LAMBDA t2 : [first(t1) EXCEPT !.player2 = second(t2).player2,
                                               !.regs2 = second(t2).regs2],
                 [i \in 1 .. Len(p.player2) |-> pt3Tick(p.player2[i], p.second[i])]),
          pt3Tick(p.player, p.file))

\* player.reset() and player2?.reset()
resetPlayers(p) ==
  [p EXCEPT !.player = pt3Reset(p.file),
            !.player2 = [i \in 1 .. Len(p.player2) |-> pt3Reset(p.second[i])],
            !.ticks = 0]

\* Pt3Replayer.seek's loop, which applies no registers
RECURSIVE seekPlayers(_, _, _)
seekPlayers(p, frame, targetFrame) ==
  IF frame < targetFrame /\ ~p.player.finished
  THEN Bind(LAMBDA next : seekPlayers(next, frame + 1, targetFrame),
            [tickPlayers(p) EXCEPT !.regs = p.regs, !.regs2 = p.regs2])
  ELSE <<p, frame>>

\* Pt3Replayer.tick
Pt3ReplayerTick ==
  /\ pt3.loaded
  /\ LET bothFinished == /\ pt3.player.finished
                         /\ \A i \in 1 .. Len(pt3.player2) : pt3.player2[i].finished
         p == IF bothFinished THEN resetPlayers(pt3) ELSE pt3
     IN /\ pt3' = Bind(tickPlayers, p)
        /\ currentFrame' = (IF bothFinished THEN 0 ELSE currentFrame) + 1
  /\ op' = "playTick"
  /\ arg' = NoArg
  /\ UNCHANGED playFrame

\* a tick of the frame timer, for the frames that are played
Pt3PlayTick ==
  /\ currentFrame < MaxPlayFrames
  /\ Pt3ReplayerTick

\* Pt3Replayer.seek
Pt3ReplayerSeek(frames) ==
  /\ pt3.loaded
  /\ \E frame \in frames :
       LET targetFrame == Max(0, Min(frame, estimateTotalFrames(pt3.file) - 1))
           done == seekPlayers(resetPlayers(pt3), 0, targetFrame)
       IN /\ pt3' = done[1]
          /\ currentFrame' = done[2]
          /\ arg' = [value |-> frame]
  /\ op' = "playSeek"
  /\ UNCHANGED playFrame

\* a seek to one of the frames that are played
Pt3PlaySeek ==
  /\ pt3.loaded
  /\ Pt3ReplayerSeek(PlaySeekFrames)

\* Pt3Replayer.stop
Pt3PlayStop ==
  /\ pt3.loaded
  /\ pt3' = resetPlayers(pt3)
  /\ currentFrame' = 0
  /\ op' = "playStop"
  /\ arg' = NoArg
  /\ UNCHANGED playFrame

NextPt3Play == Pt3PlayTick \/ Pt3PlaySeek \/ Pt3PlayStop

SpecPt3Play == InitPt3Play /\ [][NextPt3Play]_vars

\* The interval timer of a playing replayer keeps firing.
SpecPt3PlayLive == SpecPt3Play /\ WF_vars(Pt3PlayTick)

\* the history of channel ch of the first player
TraceOf(ch) == pt3.player.trace[ch]

\* C16 (as stated): when a note byte re-triggers a channel a 0xC0 had
\* stopped, register generation on that tick runs with the channel enabled
\* and reads sample position 0 and ornament position 0.
C16_RetriggerReadsFrameZero ==
  pt3.loaded =>
    \A ch \in Channels :
      TraceOf(ch).retrigger =>
        TraceOf(ch).generated /\ TraceOf(ch).readSample = 0 /\ TraceOf(ch).readOrnament = 0

\* C16 (amended): the same, for a re-triggering row that carries neither
\* effect 0x03 (set sample position) nor effect 0x04 (set ornament position).
C16_PlainRetriggerReadsFrameZero ==
  pt3.loaded =>
    \A ch \in Channels :
      (/\ TraceOf(ch).retrigger
       /\ \A k \in 1 .. Len(TraceOf(ch).effects) : TraceOf(ch).effects[k] \notin {3, 4})
        => TraceOf(ch).generated /\ TraceOf(ch).readSample = 0 /\ TraceOf(ch).readOrnament = 0

\* A stopped channel whose positions effects had moved has been re-triggered
\* by a plain note row and has read frame 0.
C16_Witness ==
  /\ pt3.loaded
  /\ op = "playTick"
  /\ pt3.file.patterns = <<PatRetriggerMoved>>
  /\ TraceOf(0).retrigger
  /\ TraceOf(0).effects = <<>>
  /\ TraceOf(0).readSample = 0
  /\ TraceOf(0).readOrnament = 0
  /\ pt3.player.state.channels[0].positionInSample = 1

Abs(x) == IF x < 0 THEN 0 - x ELSE x

\* the ticks a portamento of delay >= 1 and step >= 1 takes to its target
PortaNeed(p) == p.delay * Max(1, (Abs(p.delta - p.carry) + p.step - 1) \div p.step)

RECURSIVE RegsAfter(_, _, _)
RegsAfter(pl, f, n) ==
  IF n <= 1 THEN pt3Tick(pl, f).regs
  ELSE Bind(LAMBDA next : RegsAfter(next, f, n - 1), pt3Tick(pl, f).pl)

---------------------------------------------------------------------------
(* SpecFx: decodeEffectsYm6 and decodeEffectsYm5 applied to one register   *)
(* frame.                                                                  *)

\* A 16-register frame: the two effect codes, the two prescaler indexes
\* (register 8 also carries voice A's volume and drum bits) and the two
\* counters vary; the other registers are fixed.
FxFrame(code1, code2, prediv1, low8, prediv2, count1, count2) ==
  [r \in 0 .. 15 |->
     CASE r = 1 -> code1 * 16 + 5
       [] r = 3 -> code2 * 16 + 10
       [] r = 6 -> prediv1 * 32 + 17
       [] r = 8 -> prediv2 * 32 + low8
       [] r = 9 -> 191
       [] r = 10 -> 85
       [] r = 13 -> 254
       [] r = 14 -> count1
       [] r = 15 -> count2
       [] OTHER -> 0]

FxCounts == {0, 1, 3, 255}

FxFrames ==
  {FxFrame(code1, code2, prediv1, low8, prediv2, count1, count2) :
     code1 \in 0 .. 15, code2 \in {0, 2, 6, 8, 15}, prediv1 \in {0, 1, 7},
     low8 \in {31}, prediv2 \in {0, 4}, count1 \in FxCounts, count2 \in {0, 7}}

InitFx ==
  /\ sampleRate = 48000
  /\ workletNode = NoNode
  /\ workletReady = FALSE
  /\ pendingMessages = <<>>
  /\ moduleLoaded = FALSE
  /\ awaiting = <<0, 0>>
  /\ kind = "core"
  /\ file = NoFile
  /\ player = NoPlayer
  /\ arg = NoArg
  /\ DriverConstructed
  /\ HistoryEmpty
  /\ envGen = NewBatchEnvelope
  /\ ticker = NoTicker
  /\ nodes = NoNodes
  /\ input \in FxFrames
  /\ parsed = NotParsed
  /\ pt3 = NoPt3

\* decodeEffectsYm6(registers)
DecodeYm6 ==
  /\ op = "init"
  /\ parsed' = [ok |-> TRUE, effects |-> decodeEffectsYm6(input)]
  /\ op' = "decodeYm6"
  /\ UNCHANGED <<parseFrame, input>>

\* decodeEffectsYm5(registers)
DecodeYm5 ==
  /\ op = "init"
  /\ parsed' = [ok |-> TRUE, effects |-> decodeEffectsYm5(input)]
  /\ op' = "decodeYm5"
  /\ UNCHANGED <<parseFrame, input>>

NextFx == DecodeYm6 \/ DecodeYm5

SpecFx == InitFx /\ [][NextFx]_vars

\* the registers of the two YM6 slots: code, prescaler, counter
FxSlotRegs(slot) == IF slot = 1 THEN <<1, 6, 14>> ELSE <<3, 8, 15>>
FxCode(slot) == (input[FxSlotRegs(slot)[1]] \div 16) % 16
FxPrescaler(slot) == MFP_PREDIV[((input[FxSlotRegs(slot)[2]] \div 32) % 8) + 1]
FxCounter(slot) == input[FxSlotRegs(slot)[3]]

\* the effect the code map gives a slot whose timer is configured
FxByCodeMap(slot) ==
  LET code == FxCode(slot)
      freq == MFP_CLOCK \div (FxPrescaler(slot) * FxCounter(slot))
  IN CASE code \in 1 .. 3 ->
            [type |-> "sid", voice |-> code - 1, freq |-> freq,
             volume |-> input[8 + (code - 1)] % 16]
       [] code \in 5 .. 7 ->
            [type |-> "digidrum", voice |-> code - 5,
             drumNum |-> input[8 + (code - 5)] % 32, freq |-> freq]
       [] code \in 9 .. 11 ->
            [type |-> "sinusSid", voice |-> code - 9, freq |-> freq,
             volume |-> input[8 + (code - 9)] % 16]
       [] code \in 13 .. 15 ->
            [type |-> "syncBuzzer", freq |-> freq, envShape |-> input[13] % 16]
       [] OTHER -> [type |-> "none"]

\* C21: for each of the two slots of a YM6 frame whose prescaler and counter
\* are non-zero the decoded effect is the one of the code map (0, 4, 8, 12:
\* none; 1-3: SID; 5-7: DigiDrum; 9-11: Sinus SID; 13-15: Sync Buzzer, which
\* carries no voice), and a decoded voice is in 0..2.
C21_Ym6CodeMap ==
  op = "decodeYm6" =>
    \A slot \in {1, 2} :
      (FxPrescaler(slot) # 0 /\ FxCounter(slot) # 0) =>
        /\ parsed.effects[slot] = FxByCodeMap(slot)
        /\ "voice" \in DOMAIN parsed.effects[slot] => parsed.effects[slot].voice \in 0 .. 2
        /\ parsed.effects[slot].type \in {"sid", "digidrum", "sinusSid"}
             => "voice" \in DOMAIN parsed.effects[slot]

\* A frame whose first slot decodes a Sinus SID on voice C and whose second
\* slot decodes a DigiDrum on voice B with drum 191 & 0x1F = 31.
C21_Witness ==
  /\ op = "decodeYm6"
  /\ parsed.effects[1] = [type |-> "sinusSid", voice |-> 2, freq |-> 4096, volume |-> 5]
  /\ parsed.effects[2].type = "digidrum"
  /\ parsed.effects[2].voice = 1
  /\ parsed.effects[2].drumNum = 31

\* prescaler and counter of a slot, the prescaler read from the table of the
\* claim
FxTimer(slot) ==
  [prescaler |-> <<0, 4, 10, 16, 50, 64, 100, 200>>[((input[FxSlotRegs(slot)[2]] \div 32) % 8) + 1],
   counter |-> input[FxSlotRegs(slot)[3]]]

\* C22: in the YM6 decoder a slot whose prescaler is 0 or whose counter is 0
\* decodes to 'none', and in the YM5 decoder it contributes no effect (the SID
\* slot is registers 1/6/14, the DigiDrum slot registers 3/8/15); every
\* decoded effect carries freq = floor(2457600 / (prescaler * counter)).
C22_TimerFrequency ==
  /\ op = "decodeYm6" =>
       \A slot \in {1, 2} :
         LET t == FxTimer(slot)
             e == parsed.effects[slot]
         IN IF t.prescaler = 0 \/ t.counter = 0 THEN e = [type |-> "none"]
            ELSE e.type # "none" => e.freq = 2457600 \div (t.prescaler * t.counter)
  /\ op = "decodeYm5" =>
       /\ Len(parsed.effects) <= 2
       /\ \A i \in 1 .. Len(parsed.effects) :
            LET e == parsed.effects[i]
                t == FxTimer(IF e.type = "sid" THEN 1 ELSE 2)
            IN /\ e.type \in {"sid", "digidrum"}
               /\ t.prescaler # 0
               /\ t.counter # 0
               /\ e.freq = 2457600 \div (t.prescaler * t.counter)
       /\ \A i, j \in 1 .. Len(parsed.effects) :
            parsed.effects[i].type = parsed.effects[j].type => i = j

\* A YM5 frame whose SID slot has counter 0 (no SID effect although the SID
\* code is set) and whose DigiDrum slot decodes with 2457600 / (50 * 7).
C22_Witness ==
  /\ op = "decodeYm5"
  /\ (input[1] \div 16) % 4 = 3
  /\ input[14] = 0
  /\ Len(parsed.effects) = 1
  /\ parsed.effects[1].type = "digidrum"
  /\ parsed.effects[1].freq = 7021

---------------------------------------------------------------------------
(* C30: the shape written to the envelope generator and the table it       *)
(* selects (SpecGen, kind "envelope").                                      *)

\* the shape a handled 'setEnvelopeShape' message wrote, masked as setShape
\* masks it
ShapeWritten == arg.msg.value % 16
ShapeWriteHandled == op = "message" /\ arg.msg.type = "setEnvelopeShape"

\* C30 (as stated): shapes 0-3 select table 0, shapes 4-7 the distinct tables
\* 1-4, shapes 8-15 tables 5-9, and dataOffset is the table index times 128.
C30_ShapeTableAsStated ==
  ShapeWriteHandled =>
    LET e == workletNode.envelope
        table == e.dataOffset \div 128
    IN /\ e.dataOffset = table * 128
       /\ ShapeWritten \in 0 .. 3 => table = 0
       /\ ShapeWritten \in 4 .. 7 => table = ShapeWritten - 3
       /\ ShapeWritten \in 8 .. 15 => table \in 5 .. 9

\* C30 (amended): shapes 0-3 select table 0 (decay, then hold at 0), shapes
\* 4-7 all select table 1 (attack, then hold at 0), shapes 8-15 select the
\* distinct tables 2-9 (shape - 6); dataOffset after setShape(s) is that table
\* index times 128, and shape is s & 0x0F.
C30_ShapeTable ==
  ShapeWriteHandled =>
    LET e == workletNode.envelope
    IN /\ e.shape = ShapeWritten
       /\ ShapeWritten \in 0 .. 3 => e.dataOffset = 0 * 128
       /\ ShapeWritten \in 4 .. 7 => e.dataOffset = 1 * 128
       /\ ShapeWritten \in 8 .. 15 => e.dataOffset = (ShapeWritten - 6) * 128
       /\ ENV_DATA[(e.dataOffset \div 128) + 1] =
            (IF ShapeWritten \in 0 .. 3 THEN <<"D", "Z", "Z", "Z">>
             ELSE IF ShapeWritten \in 4 .. 7 THEN <<"A", "Z", "Z", "Z">>
             ELSE ENV_DATA[ShapeWritten - 5])

\* Shape 7 has been written after ticks moved the envelope: table 1.
C30_Witness ==
  /\ ShapeWriteHandled
  /\ arg.msg.value = 7
  /\ workletNode.envelope.shape = 7
  /\ workletNode.envelope.dataOffset = 128
  /\ workletNode.envelope.position = 0 - 64

---------------------------------------------------------------------------
(* SpecPt3Rows: the Pt3Replayer of SpecPt3Play over modules that exercise  *)
(* the row clock, the note skip, the position list, the effect parameters, *)
(* the on/off vibrato, the envelope commands and the register ranges.      *)

\* sample 1 as parseSamples returns it from frames whose tone, noise and
\* envelope offsets accumulate: frame 0 has tone offset -200 and noise
\* offset 20, frame 1 slides the amplitude and the envelope period
RowSamples ==
  <<[loopPosition |-> 0, length |-> 1, frames |-> <<createEmptySampleFrame>>],
    [loopPosition |-> 0, length |-> 2,
     frames |-> <<SampleFrame(40, 111, 56, 255), SampleFrame(212, 175, 0, 0)>>]>>

\* channel A sets numberOfNotesToSkip (0xB1) on its first row
PatSkip(skip) ==
  [channelA |-> <<177, skip>> \o RowFirstNote \o RowNote \o RowNote \o RowNote \o <<0>>,
   channelB |-> Rests(5) \o <<0>>,
   channelC |-> <<177, 1>> \o Rests(5) \o <<0>>]

\* a note with the on/off vibrato (effect 0x05), then rests
PatVibrato(onOffDelay, offOnDelay) ==
  PatternOf(<<241, 2, 5, 90, onOffDelay, offOnDelay>> \o Rests(9), 10)

\* notes that set the song delay (effect 0x09)
PatDelay ==
  PatternOf(RowFirstNote \o <<9, 92, 3>> \o Rests(1) \o <<9, 92, 0>> \o Rests(1)
              \o <<9, 92, 2>> \o Rests(1), 7)

PatShort == PatternOf(RowFirstNote \o Rests(1), 2)

\* rows with several effects; the parameter bytes follow the row's note
PatEffects ==
  PatternOf(RowFirstNote
              \o <<1, 3, 92, 2, 1, 5, 0>>
              \o <<9, 4, 5, 92, 3, 4, 1, 2>>
              \o <<8, 2, 92, 1, 0, 0, 2, 0, 3, 255, 255>>
              \o <<6, 3, 7, 92, 1>>
              \o <<3, 4, 3, 92, 2, 1, 1>>
              \o Rests(1), 7)

\* rows that enable the envelope (0xBE, 0x11), rows that disable it (0xB0,
\* 0x10) and an envelope slide (effect 0x08) down from period 5
PatEnvelope ==
  PatternOf(RowFirstNote \o <<190, 1, 2, 92>> \o Rests(1) \o <<176, 92>>
              \o <<17, 0, 5, 2, 8, 92, 1, 252, 255>> \o Rests(2) \o <<16, 2, 92>>
              \o Rests(1), 9)

\* a long note on the sample whose offsets accumulate, with noise base 31
\* and a glissando downwards
PatRanges ==
  PatternOf(<<241, 2, 63, 1, 90, 1, 0, 255>> \o Rests(11), 12)

RowModules ==
  {Pt3Module(6, 0, delay, <<0>>, 0, <<PatSkip(skip)>>) : skip \in {0, 1, 2}, delay \in {1, 2}}
  \cup {Pt3Module(6, 0, 1, <<0>>, 0, <<PatVibrato(d[1], d[2])>>) :
          d \in {<<2, 3>>, <<1, 0>>, <<0, 2>>}}
  \cup {Pt3Module(6, 0, delay, <<0>>, loop, <<PatDelay>>) : delay \in {0, 2}, loop \in {0, 1}}
  \cup {Pt3Module(6, 0, 1, <<0, 3, 0>>, loop, <<PatShort, PatRetrigger>>) : loop \in {1, 3, 5}}
  \cup {Pt3Module(version, 0, 1, <<0>>, 0, <<PatEffects>>) : version \in {5, 6}}
  \cup {Pt3Module(6, 0, 1, <<0>>, 0, <<PatEnvelope>>)}
  \cup {[Pt3Module(6, 1, 1, <<0>>, 0, <<PatRanges>>) EXCEPT !.samples = RowSamples]}

\* a second module in the file keeps the replayer ticking a first player
\* that has finished
RowSecondModules(f) ==
  {<<>>} \cup (IF f.loopPosition >= f.numberOfPositions THEN {<<LoopingModule>>} ELSE {})

\* Pt3Replayer.load: the players of a loaded file
InitPt3Rows ==
  /\ sampleRate = 48000
  /\ workletNode = NoNode
  /\ workletReady = FALSE
  /\ pendingMessages = <<>>
  /\ moduleLoaded = FALSE
  /\ awaiting = <<0, 0>>
  /\ kind = "pt3"
  /\ file = NoFile
  /\ player = NoPlayer
  /\ arg = NoArg
  /\ DriverConstructed
  /\ HistoryEmpty
  /\ envGen = NewBatchEnvelope
  /\ ticker = NoTicker
  /\ nodes = NoNodes
  /\ input = NoInput
  /\ parsed = NotParsed
  /\ \E f \in RowModules : \E second \in RowSecondModules(f) :
       pt3 = [loaded |-> TRUE, file |-> f, second |-> second,
              player |-> pt3Construct(f),
              player2 |-> [i \in 1 .. Len(second) |-> pt3Construct(second[i])],
              regs |-> createAyRegisters,
              regs2 |-> [i \in 1 .. Len(second) |-> createAyRegisters],
              ticks |-> 0]

SpecPt3Rows == InitPt3Rows /\ [][NextPt3Play]_vars

\* the first player, its row clock and its file
RowPlayer == pt3.player

RowClock == pt3.player.clock

RowsTicked == pt3.loaded /\ RowClock.ticked

\* channel ch of the first player
RowChannel(ch) == pt3.player.state.channels[ch]

C24_VibratoSwitchesOnAgain ==
  RowsTicked =>
    \A ch \in Channels :
      TraceOf(ch).vib.phase = "off" =>
        /\ ~RowChannel(ch).enabled
        /\ TraceOf(ch).vib.ticks < Max(1, RowChannel(ch).offOnDelay)

\* C25: a player that has not finished processes rows on its first tick
\* after construction or reset and from then on exactly every max(1, delay)
\* ticks, delay being the song delay when the row step before was done; a
\* row step re-arms delayCounter with max(1, delay); a tick that is not a
\* row step moves no pattern cursor and leaves currentPosition unchanged.
C25_RowsEveryDelayTicks ==
  RowsTicked =>
    /\ RowClock.step =>
         /\ RowClock.period = RowClock.due
         /\ RowClock.rearmed = Max(1, RowPlayer.state.delay)
         /\ RowPlayer.state.delayCounter = RowClock.rearmed
    /\ ~RowClock.step =>
         /\ ~RowClock.consumed
         /\ RowPlayer.state.currentPosition = RowClock.from
         /\ \A ch \in Channels : TraceOf(ch).row = "none"
         /\ ~RowPlayer.finished =>
              /\ RowClock.since < RowClock.rearmed
              /\ RowPlayer.state.delayCounter = RowClock.rearmed - RowClock.since

\* a row step three ticks after the one before, whose effect 0x09 had set
\* the delay to 3
C25_Witness ==
  /\ RowsTicked
  /\ RowClock.step /\ ~RowClock.first
  /\ RowClock.period = 3 /\ RowClock.due = 3
  /\ RowClock.consumed

\* a tick between two row steps
C25_WitnessBetween ==
  /\ RowsTicked
  /\ ~RowClock.step /\ RowClock.since = 2 /\ RowClock.rearmed = 3
  /\ ~RowPlayer.finished

\* the module the first player plays
RowFile == pt3.file

\* the position after a tick that started at position from: the same, the
\* next one, or loopPosition once the last one has been passed
RowPositionStep ==
  \/ RowPlayer.state.currentPosition = RowClock.from /\ ~RowClock.moved
  \/ /\ RowClock.moved
     /\ RowPlayer.state.currentPosition =
          (IF RowClock.from + 1 >= RowFile.numberOfPositions
           THEN RowFile.loopPosition ELSE RowClock.from + 1)

\* C26 (as stated): for a module with numberOfPositions >= 1, after any
\* number of ticks 0 <= currentPosition < numberOfPositions; a tick advances
\* the position by at most one and wraps to loopPosition after the last
\* position; a module whose loopPosition is below numberOfPositions never
\* finishes.
C26_PositionAlwaysInRange ==
  (pt3.loaded /\ RowFile.numberOfPositions >= 1) =>
    /\ RowPlayer.state.currentPosition >= 0
    /\ RowPlayer.state.currentPosition < RowFile.numberOfPositions
    /\ RowClock.ticked => RowPositionStep
    /\ RowFile.loopPosition < RowFile.numberOfPositions => ~RowPlayer.finished

\* C26 (amended): the same with the range holding while the player has not
\* finished; a player finishes exactly by wrapping to a loopPosition that is
\* not below numberOfPositions, and then currentPosition is that
\* loopPosition.
C26_PositionInRangeUntilFinished ==
  (pt3.loaded /\ RowFile.numberOfPositions >= 1) =>
    /\ ~RowPlayer.finished =>
         /\ RowPlayer.state.currentPosition >= 0
         /\ RowPlayer.state.currentPosition < RowFile.numberOfPositions
    /\ RowPlayer.finished =>
         /\ RowFile.loopPosition >= RowFile.numberOfPositions
         /\ RowPlayer.state.currentPosition = RowFile.loopPosition
    /\ RowClock.ticked => RowPositionStep
    /\ RowFile.loopPosition < RowFile.numberOfPositions => ~RowPlayer.finished

\* the tick that passes the last of three positions and wraps to
\* loopPosition 1
C26_Witness ==
  /\ pt3.loaded /\ RowClock.ticked /\ RowClock.moved
  /\ RowFile.numberOfPositions = 3 /\ RowFile.loopPosition = 1
  /\ RowClock.from = 2
  /\ RowPlayer.state.currentPosition = 1
  /\ ~RowPlayer.finished

\* a finished player being ticked: loopPosition 5 of three positions
C26_WitnessFinished ==
  /\ pt3.loaded /\ RowClock.ticked /\ ~RowClock.step
  /\ RowPlayer.finished
  /\ RowFile.loopPosition = 5 /\ RowPlayer.state.currentPosition = 5

\* the number of parameter bytes of an effect, as the statement lists them
StatedParamLength(e) ==
  CASE e = 1 -> 3 [] e = 2 -> 5 [] e = 3 -> 1 [] e = 4 -> 1
    [] e = 5 -> 2 [] e = 8 -> 3 [] e = 9 -> 1 [] OTHER -> 0

\* the parameter bytes of the effects after the i-th
RECURSIVE StatedParamsAfter(_, _)
StatedParamsAfter(effects, i) ==
  IF i >= Len(effects) THEN 0
  ELSE StatedParamLength(effects[i + 1]) + StatedParamsAfter(effects, i + 1)

\* effects that write the field the first parameter byte of e goes to
SameTarget(e) == IF e \in {1, 2} THEN {1, 2} ELSE {e}

\* what the first parameter byte of effect e was stored as, after the row
\* of channel ch
StoredFirstParam(ch, e) ==
  CASE e \in {1, 2} -> RowChannel(ch).tonSlideDelay
    [] e = 3 -> TraceOf(ch).rowSample
    [] e = 4 -> TraceOf(ch).rowOrnament
    [] e = 5 -> RowChannel(ch).onOffDelay
    [] e = 8 -> RowPlayer.state.envDelay
    [] e = 9 -> RowPlayer.state.delay
    [] OTHER -> 0

\* C27: for a row whose effects are e1..ek in stream order, the parameter
\* bytes that follow the row are those of ek first and of e1 last, with the
\* stated lengths: the parameters of ei start after those of e(i+1)..ek,
\* and the cursor ends right after the last parameter byte.
C27_ParametersInReverseOrder ==
  RowsTicked =>
    \A ch \in Channels :
      TraceOf(ch).row # "none" =>
        LET effects == TraceOf(ch).effects
            params == TraceOf(ch).paramStart
        IN /\ RowChannel(ch).addressInPattern = params + StatedParamsAfter(effects, 0)
           /\ \A i \in 1 .. Len(effects) :
                LET e == effects[i]
                    byte0 == getPatternByte(RowChannel(ch),
                                            params + StatedParamsAfter(effects, i))
                IN (/\ StatedParamLength(e) > 0
                    /\ \A j \in 1 .. (i - 1) : effects[j] \notin SameTarget(e))
                   => StoredFirstParam(ch, e) = (IF e = 9 THEN Max(1, byte0) ELSE byte0)

\* the row 0x09 0x04 0x05 note with parameter bytes 3 4 (effect 0x05),
\* 1 (effect 0x04), 2 (effect 0x09)
C27_Witness ==
  /\ RowsTicked
  /\ TraceOf(0).row = "note" /\ TraceOf(0).effects = <<9, 4, 5>>
  /\ RowChannel(0).onOffDelay = 3 /\ RowChannel(0).offOnDelay = 4
  /\ TraceOf(0).rowOrnament = 1
  /\ RowPlayer.state.delay = 2
  /\ RowChannel(0).addressInPattern = TraceOf(0).paramStart + 4

\* a row interpreted on the last tick carried an envelope-enable command
\* (0x11-0x1F or 0xB2-0xBF)
EnvelopeRow ==
  \E ch \in Channels : \E k \in 1 .. Len(TraceOf(ch).commands) :
    TraceOf(ch).commands[k] \in (17 .. 31) \cup (178 .. 191)

\* the setEnvelopeShape messages applyRegisters posts for the registers of
\* the last tick
ShapeMessages ==
  {k \in 1 .. Len(applyRegisters(pt3.regs)) :
     applyRegisters(pt3.regs)[k].type = "setEnvelopeShape"}

\* C28: the registers of a tick carry an envelope shape other than 0xFF
\* exactly when a row with an envelope-enable command was interpreted on
\* that tick; the pending shape is 0xFF again after the tick, and the
\* replayer posts setEnvelopeShape (once) on those ticks only.
C28_ShapeOnlyOnEnvelopeRows ==
  (pt3.loaded /\ op = "playTick") =>
    /\ pt3.regs.envelopeShape # 255 <=> EnvelopeRow
    /\ pt3.regs.envelopeShape # 255 => pt3.regs.envelopeShape \in 1 .. 15
    /\ RowPlayer.state.newEnvelopeShape = 255
    /\ ShapeMessages # {} <=> EnvelopeRow
    /\ Cardinality(ShapeMessages) <= 1

\* the tick of the row 0xBE 0x01 0x02 note: shape 13 in the registers
C28_Witness ==
  /\ pt3.loaded /\ op = "playTick"
  /\ EnvelopeRow
  /\ TraceOf(0).commands = <<190, 92>>
  /\ pt3.regs.envelopeShape = 13
  /\ ShapeMessages # {}

\* the tick after it: a resting row, no shape
C28_WitnessAfter ==
  /\ pt3.loaded /\ op = "playTick"
  /\ ~EnvelopeRow
  /\ TraceOf(0).row = "rest"
  /\ RowChannel(0).envelopeEnabled
  /\ pt3.regs.envelopeShape = 255
  /\ ShapeMessages = {}

\* the registers the players returned on their last tick
TickRegisters == {pt3.regs} \cup {pt3.regs2[i] : i \in 1 .. Len(pt3.regs2)}

\* C29: the registers a tick returns have the three tone periods in
\* 0..0xFFF, the noise period in 0..0x1F, the envelope period in 0..0xFFFF
\* and the mixer in 0..0x3F.
C29_RegistersInRange ==
  pt3.loaded =>
    \A regs \in TickRegisters :
      /\ regs.toneA \in 0 .. 4095
      /\ regs.toneB \in 0 .. 4095
      /\ regs.toneC \in 0 .. 4095
      /\ regs.noise \in 0 .. 31
      /\ regs.envelopePeriod \in 0 .. 65535
      /\ regs.mixer \in 0 .. 63

\* a tick whose tone sum (sample offset accumulated, glissando, table
\* period) has gone below 0 and whose noise sum is above 31: the tone
\* register holds the sum's low 12 bits
C29_Witness ==
  /\ pt3.loaded /\ op = "playTick"
  /\ RowChannel(0).tonAccumulator + RowChannel(0).currentTonSliding < 0 - 1000
  /\ pt3.regs.toneA > 3000
  /\ RowPlayer.state.noiseBase + RowPlayer.state.addToNoise > 31
  /\ pt3.regs.noise < 32

\* a tick whose envelope period (base 5, slid down by 4 a tick) would be
\* negative
C29_WitnessEnvelope ==
  /\ pt3.loaded /\ op = "playTick"
  /\ RowPlayer.state.envBaseHi = 0 /\ RowPlayer.state.envBaseLo = 5
  /\ RowPlayer.state.curEnvSlide < 0 - 8
  /\ pt3.regs.envelopePeriod = 0

---------------------------------------------------------------------------
(* The envelope waveforms (SpecGen, kind "envelope").                      *)

\* the worklet's envelope generator
GenEnvelope == workletNode.envelope

\* the levels of the cycle the generator repeats once its position has
\* wrapped (positions 0..63)
CycleLevels(e) == {EnvGetLevel([e EXCEPT !.position = p]) : p \in 0 .. 63}

\* One envelope step of a triangle: the level stays within 0..31, moves by
\* one when the position moves (repeating once at the turning points 0 and
\* 31) and its cycle spans exactly 0..31.
TriangleStep(shapes) ==
  (/\ kind = "envelope"
   /\ op' = "tick"
   /\ GenEnvelope.shape \in shapes) =>
    LET before == EnvGetLevel(GenEnvelope)
        after == EnvGetLevel(GenEnvelope')
    IN /\ after \in 0 .. 31
       /\ after - before \in {0 - 1, 0, 1}
       /\ GenEnvelope'.position = GenEnvelope.position => after = before
       /\ (GenEnvelope'.position # GenEnvelope.position /\ after = before)
            => after \in {0, 31}
       /\ \A l \in 0 .. 31 : l \in CycleLevels(GenEnvelope')

---------------------------------------------------------------------------
(* SpecNoise: the worklet's noise generator under period writes and ticks, *)
(* with a history of its LFSR shifts.  steps holds the history: the number *)
(* of shifts, the ticks since the last shift, the ticks between the last   *)
(* two shifts (gap) and whether the period changed between them            *)
(* (gapWritten) or since the last one (written).                           *)

\* LFSR shifts followed in one run
MaxNoiseShifts == 4

\* noise periods written to R6
NoisePeriods == {0, 1, 2, 31}

NoiseHistoryEmpty ==
  [shifts |-> 0, since |-> 0, gap |-> 0, written |-> FALSE,
   gapWritten |-> FALSE, shifted |-> FALSE]

InitNoise ==
  /\ sampleRate = 48000
  /\ workletNode = NewProcessor
  /\ workletReady = TRUE
  /\ pendingMessages = <<>>
  /\ moduleLoaded = TRUE
  /\ awaiting = <<0, 0>>
  /\ kind = "noise"
  /\ file = NoFile
  /\ player = NoPlayer
  /\ arg = NoArg
  /\ DriverConstructed
  /\ op = "init"
  /\ sent = <<>>
  /\ delivered = <<>>
  /\ firstSnap = NoSnap
  /\ lastSnap = NoSnap
  /\ fresh = FALSE
  /\ drumReads = NoReads
  /\ portLog = <<>>
  /\ steps = NoiseHistoryEmpty
  /\ levels = NoLevels
  /\ UnitsIdle

\* port.onmessage: a setNoisePeriod reaches the processor
NoiseWrite ==
  /\ \E v \in NoisePeriods :
       /\ workletNode' = handleMessage(workletNode, MsgV("setNoisePeriod", v), sampleRate)
       /\ arg' = [msg |-> MsgV("setNoisePeriod", v)]
       /\ steps' = [steps EXCEPT !.written = @ \/ workletNode'.noise.period
                                                   # workletNode.noise.period,
                                 !.shifted = FALSE]
  /\ op' = "message"
  /\ UNCHANGED <<genFrame, unitVars>>

\* noise.tick(), as process() calls it once per internal tick
NoiseStep ==
  /\ steps.shifts < MaxNoiseShifts
  /\ workletNode' = [workletNode EXCEPT !.noise = NoiseTick(@)]
  /\ LET shifted == workletNode'.noise.lfsr # workletNode.noise.lfsr
     IN steps' = [shifts |-> IF shifted THEN steps.shifts + 1 ELSE steps.shifts,
                  since |-> IF shifted THEN 0 ELSE steps.since + 1,
                  gap |-> IF shifted THEN steps.since + 1 ELSE steps.gap,
                  written |-> IF shifted THEN FALSE ELSE steps.written,
                  gapWritten |-> IF shifted THEN steps.written ELSE steps.gapWritten,
                  shifted |-> shifted]
  /\ op' = "tick"
  /\ arg' = NoArg
  /\ UNCHANGED <<genFrame, unitVars>>

NextNoise == NoiseWrite \/ NoiseStep

SpecNoise == InitNoise /\ [][NextNoise]_vars

\* C32: while the noise period stays p (>= 1), the LFSR shifts exactly once
\* every 2 * p internal ticks: a shift that follows another one with the
\* period unchanged in between comes 2 * p ticks after it, and no such wait
\* lasts longer; so period 1 shifts every 2 ticks and period 31 every 62.
C32_ShiftEveryTwoPeriods ==
  /\ workletNode.noise.period >= 1
  /\ (steps.shifted /\ steps.shifts >= 2 /\ ~steps.gapWritten)
       => steps.gap = 2 * workletNode.noise.period
  /\ (steps.shifts >= 1 /\ ~steps.written)
       => steps.since < 2 * workletNode.noise.period

\* a shift 62 ticks after the one before, with period 31 throughout, in a
\* run that earlier shifted every 2 ticks with period 1
C32_Witness ==
  /\ op = "tick"
  /\ steps.shifted /\ ~steps.gapWritten
  /\ workletNode.noise.period = 31
  /\ steps.gap = 62
  /\ steps.shifts >= 3


\* ---------------------------------------------------------------------
\* The drift-corrected ticker worker (src/packages/core/src/envelope.ts)
\* ---------------------------------------------------------------------

MaxTickerTime == 40
\* frame intervals posted to the worker, in milliseconds
TickerIntervals == {3, 7, 20}
\* the time that passes between two events of the worker
TickerDelays == {1, 4, 9, 25}

\* The body of the poll with "if" in place of "while".
TickerCatchUpOnce(t) ==
  IF t.now >= t.nextFrameTime
    THEN [t EXCEPT !.nextFrameTime = @ + t.frameIntervalMs,
                   !.emitted = @ + 1, !.posted = @ + 1,
                   !.stray = IF t.intervalId THEN @ ELSE @ + 1]
    ELSE t

\* while (now >= nextFrameTime) { postMessage(null); nextFrameTime += frameIntervalMs }
RECURSIVE TickerCatchUp(_)
TickerCatchUp(t) ==
  IF t.now >= t.nextFrameTime
    THEN TickerCatchUp([t EXCEPT !.nextFrameTime = @ + t.frameIntervalMs,
                                 !.emitted = @ + 1, !.posted = @ + 1,
                                 !.stray = IF t.intervalId THEN @ ELSE @ + 1])
    ELSE t

tickerFrame == <<genFrame, workletNode, op, arg, steps, envGen, input, parsed, pt3, nodes>>

InitTicker ==
  /\ sampleRate = 48000
  /\ workletNode = NoNode
  /\ workletReady = FALSE
  /\ pendingMessages = <<>>
  /\ moduleLoaded = FALSE
  /\ awaiting = <<0, 0>>
  /\ kind = "ticker"
  /\ file = NoFile
  /\ player = NoPlayer
  /\ arg = NoArg
  /\ DriverConstructed
  /\ op = "init"
  /\ sent = <<>>
  /\ delivered = <<>>
  /\ firstSnap = NoSnap
  /\ lastSnap = NoSnap
  /\ fresh = FALSE
  /\ drumReads = NoReads
  /\ portLog = <<>>
  /\ steps = 0
  /\ levels = NoLevels
  /\ UnitsIdle

\* self.onmessage with a number: any running poll timer is cleared, the
\* first frame is due one interval from now, one poll timer is registered
TickerStart ==
  /\ \E d \in TickerIntervals :
       ticker' = [ticker EXCEPT
                    !.polls = (IF ticker.intervalId THEN @ - 1 ELSE @) + 1,
                    !.intervalId = TRUE,
                    !.frameIntervalMs = d,
                    !.nextFrameTime = ticker.now + d,
                    !.started = ticker.now,
                    !.emitted = 0,
                    !.posted = 0,
                    !.last = "start"]
  /\ UNCHANGED tickerFrame

\* self.onmessage with 'stop'
TickerStop ==
  /\ ticker' = [ticker EXCEPT
                  !.polls = IF ticker.intervalId THEN @ - 1 ELSE @,
                  !.intervalId = FALSE,
                  !.posted = 0,
                  !.last = "stop"]
  /\ UNCHANGED tickerFrame

\* the callback of a live setInterval registration
TickerPoll ==
  /\ ticker.polls > 0
  /\ ticker' = TickerCatchUp([ticker EXCEPT !.posted = 0, !.last = "poll"])
  /\ UNCHANGED tickerFrame

\* time passes in the worker: the 4 ms timer is as late as the host makes it
TickerWait ==
  /\ \E dt \in TickerDelays :
       /\ ticker.now + dt <= MaxTickerTime
       /\ ticker' = [ticker EXCEPT !.now = @ + dt, !.posted = 0, !.last = "wait"]
  /\ UNCHANGED tickerFrame

NextTicker == TickerStart \/ TickerStop \/ TickerPoll \/ TickerWait

SpecTicker == InitTicker /\ [][NextTicker]_vars

\* C33: after every poll the ticks posted since the start number
\* floor((now - t0) / d) and the next frame is due after now; no tick is
\* posted while the worker is stopped, where no poll timer is left; a
\* started worker has exactly one poll timer, however often it was started.
C33_TickerKeepsCount ==
  /\ ticker.last = "poll" =>
       /\ ticker.emitted = (ticker.now - ticker.started) \div ticker.frameIntervalMs
       /\ ticker.nextFrameTime > ticker.now
  /\ ticker.stray = 0
  /\ ~ticker.intervalId => ticker.polls = 0
  /\ ticker.intervalId => ticker.polls = 1

\* a late poll has caught up three frames at once, on a worker that was
\* stopped and started again before
C33_Witness ==
  /\ ticker.last = "poll"
  /\ ticker.posted >= 3
  /\ ticker.started > 0
  /\ ticker.polls = 1
  /\ ticker.emitted > ticker.posted


\* ---------------------------------------------------------------------
\* The AudioWorkletNodes of one chip object (SpecChip)
\* ---------------------------------------------------------------------

\* the messages a node's port was handed
PortOf(i) == {nodes.made[i].port[k] : k \in 1 .. Len(nodes.made[i].port)}

\* C34: since the last stop() at most one AudioWorkletNode has been created
\* and connected, and whenever the chip object holds a node, every message
\* that was flushed from pendingMessages went to that node's port.
C34_OneNodeHoldsQueued ==
  /\ Len(nodes.made) <= 1
  /\ nodes.held # 0 =>
       \A i \in 1 .. Len(nodes.made) :
         \A k \in 1 .. Len(nodes.made[i].queued) :
           nodes.made[i].queued[k] \in PortOf(nodes.held)


\* ---------------------------------------------------------------------
\* The frame timer of the replayers (Spec)
\* ---------------------------------------------------------------------

\* C35: at most one frame timer is registered, and one is registered exactly
\* when the state is 'playing'; this holds between any two steps of the
\* replayer's methods, so also whenever none is executing, with play() calls
\* suspended in ym.start() while other calls run.
C35_TimerIffPlaying ==
  /\ timers <= 1
  /\ timers = 1 <=> state = "playing"
  /\ intervalId <=> state = "playing"

\* the second of two play() calls that waited for addModule together has
\* returned after the first one's timer had already ticked
C35_Witness ==
  /\ op = "moduleAdded"
  /\ awaiting = <<0, 0>>
  /\ firstSnap # NoSnap
  /\ state = "playing"
  /\ timers = 1


\* ---------------------------------------------------------------------
\* The frames parseYmFile returns (SpecYmParse)
\* ---------------------------------------------------------------------

\* frames[f][r]: a frame of the interleaved loops is a new Uint8Array(16)
\* filled from registerBytes[r * frameCount + f] for the registers the
\* format has; a frame of the other loop is registerBytes.slice(f * 16, f * 16 + 16)
YmFrameRegister(frames, f, r) ==
  IF frames.interleaved
    THEN IF r < frames.registers /\ r * frames.length + f < frames.bytes.len
           THEN Byte(frames.bytes, r * frames.length + f) ELSE 0
    ELSE Byte(frames.bytes, f * 16 + r)

\* frames[f].length
YmFrameLength(frames, f) ==
  IF frames.interleaved THEN 16 ELSE Slice(frames.bytes, f * 16, f * 16 + 16).len

\* the frames of a file that are looked at: the first two and the last
YmFramesSeen(frames) ==
  {f \in {0, 1, frames.length - 1} : f >= 0 /\ f < frames.length}

\* C36: a YmFile that parseYmFile returns has frameCount >= 1 and exactly
\* frameCount frames of 16 bytes; for YM2/YM3/YM3b the frame count is the
\* payload length (less the 4-byte YM3b trailer) divided by 14, register r
\* of frame f is payload byte r * frameCount + f for r < 14, and R14 = R15 = 0.
C36_YmFramesWellFormed ==
  (op = "parseYm" /\ parsed.ok) =>
    LET header == parsed.file.header
        frames == parsed.file.frames
        payload == input.len - 4 - (IF header.format = "YM3b" THEN 4 ELSE 0)
    IN /\ header.frameCount >= 1
       /\ frames.length = header.frameCount
       /\ \A f \in YmFramesSeen(frames) : YmFrameLength(frames, f) = 16
       /\ header.format \in {"YM2", "YM3", "YM3b"} =>
            /\ header.frameCount = payload \div 14
            /\ \A f \in YmFramesSeen(frames) : \A r \in 0 .. 15 :
                 YmFrameRegister(frames, f, r) =
                   IF r < 14 THEN Byte(input, 4 + r * header.frameCount + f) ELSE 0


\* ---------------------------------------------------------------------
\* The frame position of the PT3 replayer (SpecPt3Frames): songs played
\* past the frame count the replayer estimates
\* ---------------------------------------------------------------------

MaxFrameTicks == 70

\* one position of sixteen rows at delay 1: a module that loops for ever, one
\* that finishes (loopPosition = numberOfPositions), and two positions at delay 2
FrameModules ==
  {LoopingModule,
   Pt3Module(6, 0, 1, <<0>>, 1, <<PatRetrigger>>),
   Pt3Module(6, 0, 2, <<0, 0>>, 1, <<PatRetrigger>>)}

\* seek targets: before the start, the start and frames inside the song
FrameSeekFrames == {0 - 1, 0, 5, 12}

\* Pt3Replayer.load: the player of a loaded file
InitPt3Frames ==
  /\ sampleRate = 48000
  /\ workletNode = NoNode
  /\ workletReady = FALSE
  /\ pendingMessages = <<>>
  /\ moduleLoaded = FALSE
  /\ awaiting = <<0, 0>>
  /\ kind = "pt3"
  /\ file = NoFile
  /\ player = NoPlayer
  /\ arg = NoArg
  /\ DriverConstructed
  /\ HistoryEmpty
  /\ envGen = NewBatchEnvelope
  /\ ticker = NoTicker
  /\ nodes = NoNodes
  /\ input = NoInput
  /\ parsed = NotParsed
  /\ \E f \in FrameModules :
       pt3 = [loaded |-> TRUE, file |-> f, second |-> <<>>,
              player |-> pt3Construct(f), player2 |-> <<>>,
              regs |-> createAyRegisters, regs2 |-> <<>>, ticks |-> 0]

Pt3FramesTick ==
  /\ currentFrame < MaxFrameTicks
  /\ Pt3ReplayerTick

Pt3FramesSeek ==
  /\ pt3.loaded
  /\ Pt3ReplayerSeek(FrameSeekFrames)

NextPt3Frames == Pt3FramesTick \/ Pt3FramesSeek \/ Pt3PlayStop

SpecPt3Frames == InitPt3Frames /\ [][NextPt3Frames]_vars

\* C37: the frame position of a loaded PT3 replayer, as getCurrentFrame and
\* onFrameChange report it, is at least 0 and below getFrameCount() after
\* any ticks, seeks and loops.
C37_FrameBelowTotal ==
  pt3.loaded => (0 <= currentFrame /\ currentFrame < estimateTotalFrames(pt3.file))


\* ---------------------------------------------------------------------
\* Pt3Player.reset() against new Pt3Player(file) (SpecPt3Rows)
\* ---------------------------------------------------------------------

\* C38: a player that was reset is a newly constructed player of the same
\* module but for the stored delay, which the constructor raises to 1 and
\* reset() copies from the header, and the two return the same registers on
\* each of their first n ticks; the replayer's player after stop() is the
\* reset one, and after a reset by stop(), by seek() or by the loop of a
\* finished song its n-th tick returns what the n-th tick of a new player returns.
C38_ResetIsFreshPlayer ==
  pt3.loaded =>
    LET f == pt3.file
    IN /\ [pt3Reset(f) EXCEPT !.state.delay = Max(1, @)] = pt3Construct(f)
       /\ op = "playStop" => pt3.player = pt3Reset(f)
       /\ pt3.ticks >= 1 =>
            RegsAfter(pt3Reset(f), f, pt3.ticks) = RegsAfter(pt3Construct(f), f, pt3.ticks)
       /\ op = "playTick" => pt3.regs = RegsAfter(pt3Construct(f), f, pt3.ticks)

\* a player of a module with delay byte 0 that was reset (its stored delay
\* is 0, not the constructor's 1) has ticked five times and sounds
C38_Witness ==
  /\ pt3.loaded
  /\ op = "playTick"
  /\ pt3.file.delay = 0
  /\ pt3.player.state.delay = 0
  /\ pt3.ticks >= 5
  /\ pt3.regs.volumeA > 0


\* ---------------------------------------------------------------------
\* The pattern interpreter on arbitrary bytes (SpecPt3Bytes)
\* ---------------------------------------------------------------------

\* rows with the bytes 0x0A-0x0F between their commands, one with an effect
PatUnknownBytes ==
  PatternOf(RowFirstNote \o <<10, 197, 15, 92>> \o <<12, 13, 14, 11, 208>>
              \o <<1, 10, 94, 1, 2, 0>>, 4)

\* streams with no row terminator and no end-of-track byte
PatNoTerminator ==
  [channelA |-> RowFirstNote \o [i \in 1 .. 120 |-> IF i % 2 = 0 THEN 12 ELSE 193 + (i % 15)],
   channelB |-> Rests(3),
   channelC |-> [i \in 1 .. 110 |-> 11]]

\* streams that end inside a command, and an empty one
PatCutShort ==
  [channelA |-> <<90, 241>>, channelB |-> <<178, 1>>, channelC |-> <<>>]

ByteModules ==
  {Pt3Module(6, 0, 1, <<0>>, 0, <<pattern>>) :
     pattern \in {PatUnknownBytes, PatNoTerminator, PatCutShort}}

\* Pt3Replayer.load: the player of a loaded file
InitPt3Bytes ==
  /\ sampleRate = 48000
  /\ workletNode = NoNode
  /\ workletReady = FALSE
  /\ pendingMessages = <<>>
  /\ moduleLoaded = FALSE
  /\ awaiting = <<0, 0>>
  /\ kind = "pt3"
  /\ file = NoFile
  /\ player = NoPlayer
  /\ arg = NoArg
  /\ DriverConstructed
  /\ HistoryEmpty
  /\ envGen = NewBatchEnvelope
  /\ ticker = NoTicker
  /\ nodes = NoNodes
  /\ input = NoInput
  /\ parsed = NotParsed
  /\ \E f \in ByteModules :
       pt3 = [loaded |-> TRUE, file |-> f, second |-> <<>>,
              player |-> pt3Construct(f), player2 |-> <<>>,
              regs |-> createAyRegisters, regs2 |-> <<>>, ticks |-> 0]

SpecPt3Bytes == InitPt3Bytes /\ [][NextPt3Play]_vars

\* the player's state with channel ch reading from offset a
CursorAt(st, ch, a) == [st EXCEPT !.channels[ch].addressInPattern = a]

\* the player's state with zeros appended to channel ch's pattern data
ZeroPadded(st, ch) == [st EXCEPT !.channels[ch].patternData = @ \o <<0, 0, 0>>]

\* C39: a row reads at most 100 command bytes (the interpreter ends on
\* streams with no terminator); at any offset of a channel's stream a byte
\* 0x0A-0x0F moves the cursor one on, ends no row, adds no effect and
\* changes nothing else; and a read past the end of the data is a read of 0x00.
C39_InterpreterBounded ==
  pt3.loaded =>
    \A ch \in Channels :
      LET st == pt3.player.state
          data == st.channels[ch].patternData
      IN /\ Len(pt3.player.trace[ch].commands) <= 100
         /\ \A a \in 0 .. (Len(data) + 1) :
              LET here == CursorAt(st, ch, a)
                  r == rowCommand(here, pt3.file, ch, <<9>>)
                  padded == rowCommand(ZeroPadded(here, ch), pt3.file, ch, <<9>>)
              IN /\ getPatternByte(here.channels[ch], a) \in 10 .. 15 =>
                      /\ r.st = CursorAt(st, ch, a + 1)
                      /\ ~r.quit
                      /\ r.effects = <<9>>
                 /\ a >= Len(data) => (r.quit /\ r.row = "end" /\ r.st = here)
                 /\ r = [padded EXCEPT !.st.channels[ch].patternData = data]

\* a row of a stream with no terminator was cut after 100 command bytes,
\* unknown bytes among them
C39_Witness ==
  /\ pt3.loaded
  /\ op = "playTick"
  /\ \E ch \in Channels :
       /\ Len(pt3.player.trace[ch].commands) = 100
       /\ pt3.player.trace[ch].row = ""
       /\ \E k \in 1 .. 100 : pt3.player.trace[ch].commands[k] \in 10 .. 15
       /\ pt3.player.state.channels[ch].addressInPattern >= 100


\* ---------------------------------------------------------------------
\* startDrum with any drum number (SpecDrumIndex)
\* ---------------------------------------------------------------------

\* the sample sets loadDrumSamples is given: none, one sample, two samples
DrumSampleSets == {<<>>, <<DrumData>>, <<DrumData, <<40, 50>>>>}

\* drum numbers of startDrum messages (the effect decoder gives 0..31)
DrumNumbers == {0, 1, 2, 31}

InitDrumIndex ==
  /\ sampleRate = 48000
  /\ workletNode = NewProcessor
  /\ workletReady = TRUE
  /\ pendingMessages = <<>>
  /\ moduleLoaded = TRUE
  /\ awaiting = <<0, 0>>
  /\ kind = "core"
  /\ file = NoFile
  /\ player = NoPlayer
  /\ arg = NoArg
  /\ DriverConstructed
  /\ HistoryEmpty
  /\ UnitsIdle

\* port.onmessage: loadDrumSamples, startDrum or stopDrum reaches the processor
DrumMessage ==
  /\ steps < MaxDrumSteps
  /\ \E msg \in {[type |-> "loadDrumSamples", samples |-> samples] : samples \in DrumSampleSets}
             \cup {[type |-> "startDrum", channel |-> ch, drumNum |-> n, freq |-> 24000] :
                     ch \in {0, 1}, n \in DrumNumbers}
             \cup {[type |-> "stopDrum", channel |-> 0]} :
       /\ workletNode' = handleMessage(workletNode, msg, sampleRate)
       /\ arg' = [msg |-> msg]
       /\ sent' = <<msg>>
       /\ delivered' = <<msg>>
  /\ op' = "message"
  /\ drumReads' = NoReads
  /\ steps' = steps + 1
  /\ UNCHANGED <<sampleRate, levels, unitVars, workletReady, pendingMessages, moduleLoaded,
                 awaiting, drvVars, snapVars, portLog>>

NextDrumIndex == DrumMessage \/ DrumSample

SpecDrumIndex == InitDrumIndex /\ [][NextDrumIndex]_vars

\* a step that handles a startDrum whose drum number has no loaded sample
IgnoredStartDrum ==
  /\ op' = "message"
  /\ arg'.msg.type = "startDrum"
  /\ arg'.msg.drumNum >= Len(workletNode.drumSamples)

\* C40: a startDrum whose drum number is not below the number of loaded
\* samples (none loaded included) changes nothing in the processor: the
\* channel's DigiDrum player is as before and a channel that was on its
\* AND-gate output stays on it; and a DigiDrum player that is active always
\* has one of the loaded samples as its data.
C40_BadDrumNumberIgnored ==
  [][/\ IgnoredStartDrum =>
          /\ workletNode'.drums = workletNode.drums
          /\ workletNode' = workletNode
          /\ \A ch \in Channels :
               ~DrumPlays(workletNode.drums[ch]) => ~DrumPlays(workletNode'.drums[ch])
     /\ \A ch \in Channels :
          workletNode'.drums[ch].active =>
            /\ ~workletNode'.drums[ch].dataNull
            /\ \E samples \in DrumSampleSets, k \in 1 .. 2 :
                 k <= Len(samples) /\ workletNode'.drums[ch].data = samples[k]]_vars

\* startDrum 1 arrived on channel 0 with no samples loaded while channel 1
\* plays a drum started earlier: channel 0's player is idle
C40_Witness ==
  /\ op = "message"
  /\ arg.msg.type = "startDrum"
  /\ arg.msg.channel = 0
  /\ arg.msg.drumNum = 1
  /\ workletNode.drumSamples = <<>>
  /\ ~workletNode.drums[0].active
  /\ workletNode.drums[1].active

=============================================================================
